---- MODULE Spec2Model ----
(***************************************************************************)
(* Model of the massa execution sandbox: the capability interface          *)
(* (massa-execution-worker/src/interface_impl.rs) acting on one execution  *)
(* context, together with the address string form of massa-models.         *)
(***************************************************************************)
EXTENDS Integers, Sequences, FiniteSets, TLC

(***************************************************************************)
(* Option and Result values.                                               *)
(***************************************************************************)
None == [some |-> FALSE]
Some(x) == [some |-> TRUE, v |-> x]
IsSome(o) == o.some

AddressParseError == "AddressParseError"

(***************************************************************************)
(* Strings are sequences of one-character strings, byte vectors are        *)
(* sequences of 0..255.                                                    *)
(***************************************************************************)
BS58_ALPHABET ==
  << "1","2","3","4","5","6","7","8","9",
     "A","B","C","D","E","F","G","H","J","K","L","M","N","P","Q","R","S","T","U","V","W","X","Y","Z",
     "a","b","c","d","e","f","g","h","i","j","k","m","n","o","p","q","r","s","t","u","v","w","x","y","z" >>

Bs58IsDigit(c) == \E i \in 1..Len(BS58_ALPHABET) : BS58_ALPHABET[i] = c
Bs58Digit(c) == (CHOOSE i \in 1..Len(BS58_ALPHABET) : BS58_ALPHABET[i] = c) - 1

Reverse(s) == [i \in 1..Len(s) |-> s[Len(s) + 1 - i]]

\* The carry left after the last place, in base `b`, least place first.
RECURSIVE Bs58CarryBytes(_, _)
Bs58CarryBytes(carry, b) ==
  IF carry = 0 THEN <<>> ELSE <<carry % b>> \o Bs58CarryBytes(carry \div b, b)

\* The places `le` (least first, base `b`) times `m` plus the carry of `st`,
\* appended to the places of `st`; a longer `le` is done in two halves, the
\* second from the state the first leaves.
Bs58Places == [out : Seq(Nat), carry : Nat]
Bs58MulSeg[le \in Seq(Nat), st \in Bs58Places, m \in Nat, b \in Nat] ==
  IF Len(le) = 0 THEN st
  ELSE IF Len(le) = 1
  THEN [out |-> Append(st.out, (le[1] * m + st.carry) % b),
        carry |-> (le[1] * m + st.carry) \div b]
  ELSE Bs58MulSeg[SubSeq(le, (Len(le) \div 2) + 1, Len(le)),
                  Bs58MulSeg[SubSeq(le, 1, Len(le) \div 2), st, m, b], m, b]

\* One step of the coder: the number `le` (least place first, base `b`)
\* times `m` plus `carry`.
Bs58Carried[st \in Bs58Places, b \in Nat] ==
  st.out \o Bs58CarryBytes(st.carry, b)
Bs58MulAdd(le, carry, m, b) ==
  Bs58Carried[Bs58MulSeg[le, [out |-> <<>>, carry |-> carry], m, b], b]

\* The coder's loop over the places `xs` (most significant first, base `m`)
\* from the number `le`: a longer `xs` is done in two halves, the second from
\* the number the first leaves.
Bs58Accumulate[xs \in Seq(Nat), le \in Seq(Nat), m \in Nat, b \in Nat] ==
  IF Len(xs) = 0 THEN le
  ELSE IF Len(xs) = 1 THEN Bs58MulAdd(le, xs[1], m, b)
  ELSE Bs58Accumulate[SubSeq(xs, (Len(xs) \div 2) + 1, Len(xs)),
                      Bs58Accumulate[SubSeq(xs, 1, Len(xs) \div 2), le, m, b], m, b]

RECURSIVE Bs58LeadingZeros(_)
Bs58LeadingZeros(s) ==
  IF s # <<>> /\ Head(s) = "1" THEN <<0>> \o Bs58LeadingZeros(Tail(s)) ELSE <<>>

\* bs58::decode(s).into_vec(): None on a character outside the alphabet.
bs58_decode(s) ==
  IF \E i \in 1..Len(s) : ~Bs58IsDigit(s[i])
  THEN None
  ELSE Some(Bs58LeadingZeros(s)
            \o Reverse(Bs58Accumulate[[i \in 1..Len(s) |-> Bs58Digit(s[i])], <<>>, 58, 256]))

\* The 4-byte check code bs58 appends (the first bytes of a double SHA-256),
\* abstracted to a position-weighted sum of the payload.
BS58_CHECKSUM_LEN == 4
Bs58Mix[bytes \in Seq(Nat), acc \in Nat] ==
  IF Len(bytes) = 0 THEN acc
  ELSE IF Len(bytes) = 1 THEN (acc * 31 + bytes[1] + 7) % 65536
  ELSE Bs58Mix[SubSeq(bytes, (Len(bytes) \div 2) + 1, Len(bytes)),
               Bs58Mix[SubSeq(bytes, 1, Len(bytes) \div 2), acc]]
bs58_checksum(bytes) ==
  LET h == Bs58Mix[bytes, 1]
  IN << h % 256, (h \div 256) % 256, (h * 3) % 256, (h * 7 + 1) % 256 >>

\* The check of the decoded bytes `d`: the payload when its check code
\* follows it.
Bs58WithCheck(d) ==
  IF ~IsSome(d) \/ Len(d.v) < BS58_CHECKSUM_LEN THEN None
  ELSE IF SubSeq(d.v, Len(d.v) - BS58_CHECKSUM_LEN + 1, Len(d.v))
          = bs58_checksum(SubSeq(d.v, 1, Len(d.v) - BS58_CHECKSUM_LEN))
       THEN Some(SubSeq(d.v, 1, Len(d.v) - BS58_CHECKSUM_LEN)) ELSE None

\* bs58::decode(s).with_check(None).into_vec()
bs58_decode_with_check(s) == Bs58WithCheck(bs58_decode(s))

\* U64VarIntDeserializer: unsigned LEB128; None when the input ends inside
\* the number. Returns the value and the rest of the input.
RECURSIVE U64VarInt_deserialize(_)
U64VarInt_deserialize(bytes) ==
  IF bytes = <<>> THEN None
  ELSE IF Head(bytes) < 128
       THEN Some([value |-> Head(bytes), rest |-> Tail(bytes)])
       ELSE LET r == U64VarInt_deserialize(Tail(bytes))
            IN IF ~IsSome(r) THEN None
               ELSE Some([value |-> (Head(bytes) - 128) + 128 * r.v.value,
                          rest |-> r.v.rest])

HASH_SIZE_BYTES == 32

\* The hash that follows the version `r` read from the decoded bytes.
UserAddress_hash_after(r) ==
  IF ~IsSome(r) THEN None
  ELSE IF Len(r.v.rest) # HASH_SIZE_BYTES THEN None
  ELSE Some(r.v.rest)

\* The version and the hash in the checked bytes.
UserAddress_from_checked(decoded_bs58_check) ==
  IF ~IsSome(decoded_bs58_check) THEN None
  ELSE UserAddress_hash_after(U64VarInt_deserialize(decoded_bs58_check.v))

\* impl FromStr for UserAddress
UserAddress_from_str(s) == UserAddress_from_checked(bs58_decode_with_check(s))

\* impl FromStr for HashedSCAddress
HashedSCAddress_from_str(s) == bs58_decode(s)

\* Address::User(..) or Address::SC(..) around the parsed bytes `o`.
AddressOfKind(kind, o) ==
  IF IsSome(o) THEN Some([kind |-> kind, bytes |-> o.v]) ELSE None

\* Variant: whatever follows the 'A' that is not 'U' is read as 'S'.
Address_FromStr_lax(s) ==
  IF Len(s) < 1 \/ s[1] # "A" THEN None
  ELSE IF Len(s) < 2 THEN None
  ELSE LET pref == s[2]
           data == SubSeq(s, 3, Len(s))
       IN IF pref = "U"
          THEN AddressOfKind("User", UserAddress_from_str(data))
          ELSE AddressOfKind("SC", HashedSCAddress_from_str(data))

\* impl FromStr for Address: Some(address) or None for AddressParseError.
Address_FromStr(s) ==
  IF Len(s) < 1 \/ s[1] # "A" THEN None
  ELSE IF Len(s) < 2 THEN None
  ELSE LET pref == s[2]
           data == SubSeq(s, 3, Len(s))
       IN IF pref = "U"
          THEN AddressOfKind("User", UserAddress_from_str(data))
          ELSE IF pref = "S"
          THEN AddressOfKind("SC", HashedSCAddress_from_str(data))
          ELSE None

\* The base-58 digits of the number `be`, most significant first.
Bs58Chars[d \in Seq(Nat)] == [i \in 1..Len(d) |-> BS58_ALPHABET[d[Len(d) + 1 - i] + 1]]
Bs58Digits(be) == Bs58Chars[Bs58Accumulate[be, <<>>, 256, 58]]

RECURSIVE Bs58LeadingOnes(_)
Bs58LeadingOnes(bytes) ==
  IF bytes # <<>> /\ Head(bytes) = 0 THEN <<"1">> \o Bs58LeadingOnes(Tail(bytes)) ELSE <<>>

\* bs58::encode(bytes).into_string()
bs58_encode(bytes) == Bs58LeadingOnes(bytes) \o Bs58Digits(bytes)

\* bs58::encode(bytes).with_check().into_string()
bs58_encode_with_check(bytes) == bs58_encode(bytes \o bs58_checksum(bytes))

\* U64VarIntSerializer: unsigned LEB128.
RECURSIVE U64VarInt_serialize(_)
U64VarInt_serialize(n) ==
  IF n < 128 THEN <<n>> ELSE <<128 + (n % 128)>> \o U64VarInt_serialize(n \div 128)

USER_ADDRESS_VERSION == 0

\* UserAddress::bs58_encode
UserAddress_bs58_encode(hash) ==
  bs58_encode_with_check(U64VarInt_serialize(USER_ADDRESS_VERSION) \o hash)

\* SCAddressSerializer: the slot (period as a varint, then the thread byte),
\* the index as a varint, the is_write byte.
SCAddress_serialized_bytes(sc) ==
  U64VarInt_serialize(sc.slot[1]) \o <<sc.slot[2]>>
    \o U64VarInt_serialize(sc.idx) \o <<IF sc.is_write THEN 1 ELSE 0>>

\* The least length of a HashedSCAddress (value.resize(8, 0)).
HASHED_SC_MIN_LEN == 8

\* impl From<Vec<u8>> for HashedSCAddress: padded with zeros to 8 bytes.
HashedSCAddress_from_bytes(value) ==
  IF Len(value) < HASHED_SC_MIN_LEN
  THEN value \o [i \in 1..(HASHED_SC_MIN_LEN - Len(value)) |-> 0]
  ELSE value

\* impl From<SCAddress> for HashedSCAddress
HashedSCAddress_from_SCAddress(sc) ==
  HashedSCAddress_from_bytes(SCAddress_serialized_bytes(sc))

\* impl Display for Address
Address_to_string(a) ==
  <<"A", IF a.kind = "User" THEN "U" ELSE "S">>
    \o (IF a.kind = "User" THEN UserAddress_bs58_encode(a.bytes) ELSE bs58_encode(a.bytes))


(***************************************************************************)
(* Bounds of the model and configuration.                                  *)
(***************************************************************************)
\* ExecutionConfig.thread_count (self.config.thread_count), kept small.
ThreadCount == 2
\* Cap on the call-stack depth explored.
MaxDepth == 3
\* Cap on created_message_index explored.
MaxMsgs == 2
\* Stand-in for u64::MAX, the largest raw Amount: a credit above it fails.
MaxRawAmount == 2
\* Cap on created_addr_index explored: the addresses create_module may make.
MaxCreated == 1
\* massa_models::config::MAX_DATASTORE_KEY_LENGTH
MAX_DATASTORE_KEY_LENGTH == 255

\* Cap on the length of the datastore values explored: what appends may reach.
MaxValueLen == 2

\* Cap on the worker tasks the block retriever spawns in a run explored.
MaxSpawned == 2
\* Cap on the commands waiting in the block retriever's channel.
MaxQueued == 1

\* Cap on the states of the seeded generator explored (its period).
RngPeriod == 32
\* Stand-in for u64::MAX in MassaTime arithmetic: a checked sum above it fails.
MaxMillis == 200
\* self.config.t0 and self.config.genesis_timestamp, in milliseconds, kept small.
ConfigT0 == 16
ConfigGenesisTimestamp == 100

\* self.cfg.initial_delay of the endorsement factory, kept small.
ConfigInitialDelay == 8
\* Cap on the periods of the slots the endorsement factory is followed to.
MaxPeriod == 2

(***************************************************************************)
(* Inputs the running bytecode may pass to the interface.                  *)
(***************************************************************************)
StrA == <<"A", "S", "2">>
StrB == <<"A", "S", "3">>
StrC == <<"A", "S", "4">>
StrBad == <<"A", "X", "2">>
\* The slot of the execution explored.
ExecutionSlot == <<1, 0>>
\* The i-th address the context creates in that slot, and its string.
CreatedAddr(i) ==
  [kind |-> "SC",
   bytes |-> HashedSCAddress_from_SCAddress([slot |-> ExecutionSlot, idx |-> i,
                                             is_write |-> TRUE])]
CreatedStrs == {Address_to_string(CreatedAddr(i)) : i \in 0..(MaxCreated - 1)}
AddrStrs == {StrA, StrB, StrC, StrBad} \cup CreatedStrs
\* The address arguments of the coin transfers explored.
TransferStrs == {StrA, StrB, StrBad}
\* The parse of every input string, evaluated once.
ParsedAddr == [s \in AddrStrs |-> Address_FromStr(s)]
\* Address::from_str(s) as the interface calls it: looked up for the inputs
\* explored, computed for any other string.
Address_from_str(s) == IF s \in DOMAIN ParsedAddr THEN ParsedAddr[s] ELSE Address_FromStr(s)
AddrA == ParsedAddr[StrA].v
AddrB == ParsedAddr[StrB].v

RawAmounts == {1, 2}
\* The bytecode arguments of create_module and raw_set_bytecode_for.
Bytecodes == {<<12>>}
\* The raw_coins of the init_calls explored.
CallCoins == {1}
DataKeys == {<<1>>}
DataValues == {<<7>>}
LongKey == [i \in 1..(MAX_DATASTORE_KEY_LENGTH + 1) |-> 0]
Filters == {None,
            Some(<<StrB, Some(<<1>>)>>),
            Some(<<StrB, Some(LongKey)>>),
            Some(<<StrBad, None>>)}
\* (validity_start thread, validity_end thread): in range, and each out of range.
ThreadPairs == {<<0, ThreadCount - 1>>, <<ThreadCount, 0>>, <<ThreadCount - 1, ThreadCount>>,
                <<ThreadCount, ThreadCount>>}
\* The argument tuples of send_message explored:
\* <<target_address, start thread, end thread, raw_fee, raw_coins, filter>>.
SendInputs ==
  {<<StrB, tp[1], tp[2], 1, 0, None>> : tp \in ThreadPairs}
  \cup {<<StrB, 0, ThreadCount - 1, 1, 1, f>> : f \in Filters \ {None}}
  \cup {<<StrBad, 0, ThreadCount - 1, 1, 0, None>>}

\* The keys asked of the operation datastore: one it holds, one it does not.
OpKeys == {<<1>>, <<2>>}

(***************************************************************************)
(* State: the fields of one ExecutionContext, plus what the last interface *)
(* call returned and the stacks saved at the init_calls still open.        *)
(***************************************************************************)
VARIABLES
  ledger,                 \* speculative ledger: Address -> entry, for the addresses that exist
  stack,                  \* context.stack: sequence of ExecutionStackElement
  messages,               \* outgoing async messages, in creation order
  created_message_index,  \* context.created_message_index
  slot,                   \* context.slot
  created_addr_index,     \* context.created_addr_index
  last,                   \* the last interface call: its name and how it ended
  open_calls,             \* the stack as it was before each init_call not yet finished
  context_lock,           \* per context: whether its Mutex<ExecutionContext> is locked
  cache_lock,             \* the RwLock of the shared module cache: writer and readers
  module_cache,           \* the (bytecode, limit) pairs whose compiled module is cached
  calls,                  \* per host thread: the interface call it is in, and its guard
  unsafe_rng,             \* context.unsafe_rng: the state of the seeded generator
  replay,                 \* a second context of the same slot and seed, and its last result
  prev_slot,              \* EndorsementFactoryWorker::run: the slot processed last, if any
  factory_running,        \* whether the endorsement factory's loop has not been stopped
  pool,                   \* the endorsements handed to the pool (channels.pool)
  retriever_at,           \* BlockRetriever: where its task is (run, process_command)
  command_rx,             \* BlockRetriever.command_rx: the commands waiting, and whether closed
  workers,                \* BlockRetriever.workers: BlockId -> the task spawned for it
  tasks,                  \* the worker tasks spawned so far: block id and position in Worker::run
  stopping,               \* the handles the retriever is waiting for
  launching,              \* `added` of the WishlistDelta being processed
  last_delta              \* the WishlistDelta processed last, if any

vars == <<ledger, stack, messages, created_message_index, slot, created_addr_index, last,
          open_calls, context_lock, cache_lock, module_cache, calls, unsafe_rng, replay,
          prev_slot, factory_running, pool, retriever_at, command_rx, workers, tasks,
          stopping, launching, last_delta>>

Ctx == [ledger |-> ledger, stack |-> stack, messages |-> messages,
        created_message_index |-> created_message_index, slot |-> slot,
        created_addr_index |-> created_addr_index, unsafe_rng |-> unsafe_rng]

Ok(ctx, ret) == [ok |-> TRUE, err |-> "", ret |-> ret, ctx |-> ctx]
Err(ctx, e) == [ok |-> FALSE, err |-> e, ret |-> <<>>, ctx |-> ctx]

SeqContains(s, e) == \E i \in 1..Len(s) : s[i] = e

(***************************************************************************)
(* ExecutionContext (context.rs): the operations the interface calls.      *)
(***************************************************************************)
NewLedgerEntry == [balance |-> 0, bytecode |-> <<>>, datastore |-> <<>>]

context_get_bytecode(ctx, addr) ==
  IF addr \in DOMAIN ctx.ledger THEN Some(ctx.ledger[addr].bytecode) ELSE None

context_get_balance(ctx, addr) ==
  IF addr \in DOMAIN ctx.ledger THEN Some(ctx.ledger[addr].balance) ELSE None

unwrap_or_default(o) == IF IsSome(o) THEN o.v ELSE 0

context_get_current_address(ctx) ==
  IF ctx.stack = <<>> THEN None ELSE Some(ctx.stack[Len(ctx.stack)].address)

\* get_current_owned_addresses: the owned addresses of the top frame, None
\* on an empty stack.
context_get_current_owned_addresses(ctx) ==
  IF ctx.stack = <<>> THEN None ELSE Some(ctx.stack[Len(ctx.stack)].owned_addresses)

\* get_call_stack: the addresses of the frames, from the bottom to the top.
context_get_call_stack(ctx) == [i \in 1..Len(ctx.stack) |-> ctx.stack[i].address]

\* get_current_call_coins: the coins of the top frame, None on an empty stack.
context_get_current_call_coins(ctx) ==
  IF ctx.stack = <<>> THEN None ELSE Some(ctx.stack[Len(ctx.stack)].coins)

\* The frame whose owned addresses grant write access: the one below the top,
\* or the top itself at depth 1.
caller_frame(ctx) ==
  IF Len(ctx.stack) > 1 THEN ctx.stack[Len(ctx.stack) - 1] ELSE ctx.stack[Len(ctx.stack)]

has_write_access(ctx, addr) ==
  /\ ctx.stack # <<>>
  /\ SeqContains(caller_frame(ctx).owned_addresses, addr)

SetBalance(l, addr, b) ==
  [a \in DOMAIN l \cup {addr} |->
     IF a = addr
     THEN [(IF a \in DOMAIN l THEN l[a] ELSE NewLedgerEntry) EXCEPT !.balance = b]
     ELSE l[a]]

\* transfer_coins(from?, to?, amount, check_solvency): both legs or neither.
\* Only the solvency check keeps a debit from exceeding the balance.
context_transfer_coins(ctx, from_addr, to_addr, amount, check_solvency) ==
  LET from_bal == IF IsSome(from_addr)
                  THEN unwrap_or_default(context_get_balance(ctx, from_addr.v)) ELSE 0
      debited == IF IsSome(from_addr)
                 THEN SetBalance(ctx.ledger, from_addr.v, from_bal - amount)
                 ELSE ctx.ledger
      to_bal == IF IsSome(to_addr) /\ to_addr.v \in DOMAIN debited
                THEN debited[to_addr.v].balance ELSE 0
      credited == IF IsSome(to_addr)
                  THEN SetBalance(debited, to_addr.v, to_bal + amount)
                  ELSE debited
  IN IF IsSome(from_addr) /\ check_solvency /\ from_bal < amount
     THEN Err(ctx, "InsufficientBalance")
     ELSE IF IsSome(to_addr) /\ to_bal + amount > MaxRawAmount
     THEN Err(ctx, "AmountOverflow")
     ELSE Ok([ctx EXCEPT !.ledger = credited], <<>>)

\* set_data_entry: needs write access and an existing address; creates the key.
context_set_data_entry(ctx, addr, key, value) ==
  IF ~has_write_access(ctx, addr) THEN Err(ctx, "NoWriteAccess")
  ELSE IF addr \notin DOMAIN ctx.ledger THEN Err(ctx, "AddressNotFound")
  ELSE LET ds == ctx.ledger[addr].datastore
           nds == [k \in DOMAIN ds \cup {key} |-> IF k = key THEN value ELSE ds[k]]
       IN Ok([ctx EXCEPT !.ledger[addr].datastore = nds], <<>>)

\* get_data_entry: the value of the key, None when the address or the key is
\* missing.
context_get_data_entry(ctx, addr, key) ==
  IF addr \in DOMAIN ctx.ledger /\ key \in DOMAIN ctx.ledger[addr].datastore
  THEN Some(ctx.ledger[addr].datastore[key])
  ELSE None

\* append_data_entry: needs write access, an existing address and an
\* existing entry; the bytes are put after the entry's value.
context_append_data_entry(ctx, addr, key, value) ==
  IF ~has_write_access(ctx, addr) THEN Err(ctx, "NoWriteAccess")
  ELSE IF addr \notin DOMAIN ctx.ledger THEN Err(ctx, "AddressNotFound")
  ELSE IF key \notin DOMAIN ctx.ledger[addr].datastore THEN Err(ctx, "DataEntryNotFound")
  ELSE Ok([ctx EXCEPT !.ledger[addr].datastore[key] = @ \o value], <<>>)

\* delete_data_entry: needs write access, an existing address and an
\* existing entry; the entry is removed.
context_delete_data_entry(ctx, addr, key) ==
  IF ~has_write_access(ctx, addr) THEN Err(ctx, "NoWriteAccess")
  ELSE IF addr \notin DOMAIN ctx.ledger THEN Err(ctx, "AddressNotFound")
  ELSE IF key \notin DOMAIN ctx.ledger[addr].datastore THEN Err(ctx, "DataEntryNotFound")
  ELSE Ok([ctx EXCEPT !.ledger[addr].datastore =
                        [k \in DOMAIN @ \ {key} |-> @[k]]], <<>>)

\* has_data_entry: whether the address exists and has the key.
context_has_data_entry(ctx, addr, key) ==
  addr \in DOMAIN ctx.ledger /\ key \in DOMAIN ctx.ledger[addr].datastore

\* get_keys: the keys of the address's datastore, None when the address does
\* not exist.
context_get_keys(ctx, addr) ==
  IF addr \in DOMAIN ctx.ledger THEN Some(DOMAIN ctx.ledger[addr].datastore) ELSE None

\* set_bytecode: needs write access and an existing address.
context_set_bytecode(ctx, addr, bytecode) ==
  IF ~has_write_access(ctx, addr) THEN Err(ctx, "NoWriteAccess")
  ELSE IF addr \notin DOMAIN ctx.ledger THEN Err(ctx, "AddressNotFound")
  ELSE Ok([ctx EXCEPT !.ledger[addr].bytecode = bytecode], <<>>)

\* create_new_sc_address: the address of (slot, created_addr_index), installed
\* with the bytecode and no coins, owned by the current frame.
context_create_new_sc_address(ctx, bytecode) ==
  IF ctx.stack = <<>> THEN Err(ctx, "EmptyCallStack")
  ELSE LET address == [kind |-> "SC",
                       bytes |-> HashedSCAddress_from_SCAddress(
                                   [slot |-> ctx.slot, idx |-> ctx.created_addr_index,
                                    is_write |-> TRUE])]
           top == Len(ctx.stack)
       IN Ok([ctx EXCEPT
                !.ledger = (address :> [NewLedgerEntry EXCEPT !.bytecode = bytecode]) @@ @,
                !.stack[top].owned_addresses = Append(@, address),
                !.created_addr_index = @ + 1],
             address)

context_push_new_message(ctx, msg) ==
  [ctx EXCEPT !.messages = Append(ctx.messages, msg)]

(***************************************************************************)
\* The generator of the context (unsafe_rng), abstracted to a congruential
\* one over RngPeriod states: seeded from the slot, one step to a sample.
SlotSeed(s) == s[1] * ThreadCount + s[2]
Rng_from_seed(seed) == seed % RngPeriod
Rng_next(rng) == (rng * 5 + 3) % RngPeriod

\* massa_models::timeslots::get_block_slot_timestamp: the genesis timestamp
\* plus t0 / thread_count for each thread and t0 for each period, every step
\* checked; None when a step overflows.
get_block_slot_timestamp(thread_count, t0, genesis_timestamp, s) ==
  IF thread_count = 0 \/ (t0 \div thread_count) * s[2] > MaxMillis
       \/ t0 * s[1] > MaxMillis
       \/ genesis_timestamp + (t0 \div thread_count) * s[2] > MaxMillis
       \/ genesis_timestamp + (t0 \div thread_count) * s[2] + t0 * s[1] > MaxMillis
  THEN None
  ELSE Some(genesis_timestamp + (t0 \div thread_count) * s[2] + t0 * s[1])

(***************************************************************************)
(* InterfaceImpl (interface_impl.rs). Each operation maps the context and  *)
(* its arguments to the result returned and the context it leaves.         *)
(***************************************************************************)
ExecutionStackElement(address, coins, owned_addresses, operation_datastore) ==
  [address |-> address, coins |-> coins, owned_addresses |-> owned_addresses,
   operation_datastore |-> operation_datastore]

\* The push of lines 159-165.
PushFrame(ctx, frame) == [ctx EXCEPT !.stack = Append(ctx.stack, frame)]

\* Variant: the new frame owns the caller's address instead of the target's.
init_call_owns_caller(ctx, address, raw_coins) ==
  LET to_address == Address_from_str(address)
  IN IF ~IsSome(to_address) THEN Err(ctx, AddressParseError)
     ELSE LET bytecode == context_get_bytecode(ctx, to_address.v)
          IN IF ~IsSome(bytecode) THEN Err(ctx, "bytecode not found")
             ELSE IF ctx.stack = <<>>
             THEN Err(ctx, "failed to read call stack current address")
             ELSE LET from_address == ctx.stack[Len(ctx.stack)].address
                      t == context_transfer_coins(ctx, Some(from_address), to_address,
                                                  raw_coins, TRUE)
                  IN IF ~t.ok THEN Err(t.ctx, "error transferring coins: " \o t.err)
                     ELSE Ok(PushFrame(t.ctx,
                                       ExecutionStackElement(to_address.v, raw_coins,
                                                             <<from_address>>, None)),
                             bytecode.v)

\* Variant: the frame is pushed before the coins are transferred and stays
\* on the stack when the transfer fails.
init_call_push_first(ctx, address, raw_coins) ==
  LET to_address == Address_from_str(address)
  IN IF ~IsSome(to_address) THEN Err(ctx, AddressParseError)
     ELSE LET bytecode == context_get_bytecode(ctx, to_address.v)
          IN IF ~IsSome(bytecode) THEN Err(ctx, "bytecode not found")
             ELSE IF ctx.stack = <<>>
             THEN Err(ctx, "failed to read call stack current address")
             ELSE LET from_address == ctx.stack[Len(ctx.stack)].address
                      pushed == PushFrame(ctx,
                                          ExecutionStackElement(to_address.v, raw_coins,
                                                                <<to_address.v>>, None))
                      t == context_transfer_coins(pushed, Some(from_address), to_address,
                                                  raw_coins, TRUE)
                  IN IF ~t.ok THEN Err(t.ctx, "error transferring coins: " \o t.err)
                     ELSE Ok(t.ctx, bytecode.v)

\* Variant: the coins are transferred before the target bytecode is looked up.
init_call_transfer_first(ctx, address, raw_coins) ==
  LET to_address == Address_from_str(address)
  IN IF ~IsSome(to_address) THEN Err(ctx, AddressParseError)
     ELSE IF ctx.stack = <<>>
     THEN Err(ctx, "failed to read call stack current address")
     ELSE LET from_address == ctx.stack[Len(ctx.stack)].address
              t == context_transfer_coins(ctx, Some(from_address), to_address,
                                          raw_coins, TRUE)
          IN IF ~t.ok THEN Err(t.ctx, "error transferring coins: " \o t.err)
             ELSE LET bytecode == context_get_bytecode(t.ctx, to_address.v)
                  IN IF ~IsSome(bytecode) THEN Err(t.ctx, "bytecode not found")
                     ELSE Ok(PushFrame(t.ctx,
                                       ExecutionStackElement(to_address.v, raw_coins,
                                                             <<to_address.v>>, None)),
                             bytecode.v)

\* Variant: the pushed frame carries the operation datastore of its caller.
init_call_inherit_datastore(ctx, address, raw_coins) ==
  LET to_address == Address_from_str(address)
  IN IF ~IsSome(to_address) THEN Err(ctx, AddressParseError)
     ELSE LET bytecode == context_get_bytecode(ctx, to_address.v)
          IN IF ~IsSome(bytecode) THEN Err(ctx, "bytecode not found")
             ELSE IF ctx.stack = <<>>
             THEN Err(ctx, "failed to read call stack current address")
             ELSE LET from_address == ctx.stack[Len(ctx.stack)].address
                      t == context_transfer_coins(ctx, Some(from_address), to_address,
                                                  raw_coins, TRUE)
                  IN IF ~t.ok THEN Err(t.ctx, "error transferring coins: " \o t.err)
                     ELSE Ok(PushFrame(t.ctx,
                                       ExecutionStackElement(
                                         to_address.v, raw_coins, <<to_address.v>>,
                                         ctx.stack[Len(ctx.stack)].operation_datastore)),
                             bytecode.v)

\* Variant: the coins are transferred without the solvency check.
init_call_no_solvency(ctx, address, raw_coins) ==
  LET to_address == Address_from_str(address)
  IN IF ~IsSome(to_address) THEN Err(ctx, AddressParseError)
     ELSE LET bytecode == context_get_bytecode(ctx, to_address.v)
          IN IF ~IsSome(bytecode) THEN Err(ctx, "bytecode not found")
             ELSE IF ctx.stack = <<>>
             THEN Err(ctx, "failed to read call stack current address")
             ELSE LET from_address == ctx.stack[Len(ctx.stack)].address
                      t == context_transfer_coins(ctx, Some(from_address), to_address,
                                                  raw_coins, FALSE)
                  IN IF ~t.ok THEN Err(t.ctx, "error transferring coins: " \o t.err)
                     ELSE Ok(PushFrame(t.ctx,
                                       ExecutionStackElement(to_address.v, raw_coins,
                                                             <<to_address.v>>, None)),
                             bytecode.v)

init_call(ctx, address, raw_coins) ==
  LET to_address == Address_from_str(address)
  IN IF ~IsSome(to_address) THEN Err(ctx, AddressParseError)
     ELSE LET bytecode == context_get_bytecode(ctx, to_address.v)
          IN IF ~IsSome(bytecode) THEN Err(ctx, "bytecode not found")
             ELSE IF ctx.stack = <<>>
             THEN Err(ctx, "failed to read call stack current address")
             ELSE LET from_address == ctx.stack[Len(ctx.stack)].address
                      t == context_transfer_coins(ctx, Some(from_address), to_address,
                                                  raw_coins, TRUE)
                  IN IF ~t.ok THEN Err(t.ctx, "error transferring coins: " \o t.err)
                     ELSE Ok(PushFrame(t.ctx,
                                       ExecutionStackElement(to_address.v, raw_coins,
                                                             <<to_address.v>>, None)),
                             bytecode.v)

\* Variant: everything above the bottom frame is dropped (truncate(1)).
finish_call_truncate(ctx) ==
  IF ctx.stack = <<>> THEN Err(ctx, "call stack out of bounds")
  ELSE Ok([ctx EXCEPT !.stack = SubSeq(ctx.stack, 1, 1)], <<>>)

\* Variant: the result of pop() is not looked at.
finish_call_unchecked(ctx) ==
  Ok([ctx EXCEPT !.stack = SubSeq(ctx.stack, 1, Len(ctx.stack) - 1)], <<>>)

\* Variant: the first frame is removed (remove(0)) instead of the last.
finish_call_remove_first(ctx) ==
  IF ctx.stack = <<>> THEN Err(ctx, "call stack out of bounds")
  ELSE Ok([ctx EXCEPT !.stack = Tail(ctx.stack)], <<>>)

\* Variant: the coins the popped frame was called with go back to its caller.
finish_call_refund(ctx) ==
  IF ctx.stack = <<>> THEN Err(ctx, "call stack out of bounds")
  ELSE LET top == ctx.stack[Len(ctx.stack)]
           popped == [ctx EXCEPT !.stack = SubSeq(ctx.stack, 1, Len(ctx.stack) - 1)]
       IN IF popped.stack = <<>> THEN Ok(popped, <<>>)
          ELSE LET t == context_transfer_coins(
                          popped, Some(top.address),
                          Some(popped.stack[Len(popped.stack)].address), top.coins, TRUE)
               IN Ok(IF t.ok THEN t.ctx ELSE popped, <<>>)

finish_call(ctx) ==
  IF ctx.stack = <<>> THEN Err(ctx, "call stack out of bounds")
  ELSE Ok([ctx EXCEPT !.stack = SubSeq(ctx.stack, 1, Len(ctx.stack) - 1)], <<>>)

\* Variant: the entry is written for the current address (as raw_set_data
\* does), not for the address given.
raw_set_data_for_current(ctx, address, key, value) ==
  LET addr == Address_from_str(address)
  IN IF ~IsSome(addr) THEN Err(ctx, AddressParseError)
     ELSE LET cur == context_get_current_address(ctx)
          IN IF ~IsSome(cur) THEN Err(ctx, "EmptyCallStack")
             ELSE context_set_data_entry(ctx, cur.v, key, value)

\* Variant: an entry that exists is not written again.
raw_set_data_for_no_overwrite(ctx, address, key, value) ==
  LET addr == Address_from_str(address)
  IN IF ~IsSome(addr) THEN Err(ctx, AddressParseError)
     ELSE IF IsSome(context_get_data_entry(ctx, addr.v, key))
     THEN Err(ctx, "data entry exists")
     ELSE context_set_data_entry(ctx, addr.v, key, value)

raw_set_data_for(ctx, address, key, value) ==
  LET addr == Address_from_str(address)
  IN IF ~IsSome(addr) THEN Err(ctx, AddressParseError)
     ELSE context_set_data_entry(ctx, addr.v, key, value)

\* Variant: the credit leg is dropped (to_addr passed as None).
transfer_coins_no_credit(ctx, to_address, raw_amount) ==
  LET to == Address_from_str(to_address)
  IN IF ~IsSome(to) THEN Err(ctx, AddressParseError)
     ELSE LET from_address == context_get_current_address(ctx)
          IN IF ~IsSome(from_address) THEN Err(ctx, "EmptyCallStack")
             ELSE context_transfer_coins(ctx, from_address, None, raw_amount, TRUE)

\* Variant: the debit and the credit are two calls, and a credit that fails
\* leaves the debit applied.
transfer_coins_two_steps(ctx, to_address, raw_amount) ==
  LET to == Address_from_str(to_address)
  IN IF ~IsSome(to) THEN Err(ctx, AddressParseError)
     ELSE LET from_address == context_get_current_address(ctx)
          IN IF ~IsSome(from_address) THEN Err(ctx, "EmptyCallStack")
             ELSE LET debit == context_transfer_coins(ctx, from_address, None, raw_amount, TRUE)
                  IN IF ~debit.ok THEN debit
                     ELSE context_transfer_coins(debit.ctx, None, to, raw_amount, TRUE)

transfer_coins(ctx, to_address, raw_amount) ==
  LET to == Address_from_str(to_address)
  IN IF ~IsSome(to) THEN Err(ctx, AddressParseError)
     ELSE LET from_address == context_get_current_address(ctx)
          IN IF ~IsSome(from_address) THEN Err(ctx, "EmptyCallStack")
             ELSE context_transfer_coins(ctx, from_address, to, raw_amount, TRUE)

transfer_coins_for(ctx, from_address, to_address, raw_amount) ==
  LET from == Address_from_str(from_address)
  IN IF ~IsSome(from) THEN Err(ctx, AddressParseError)
     ELSE LET to == Address_from_str(to_address)
          IN IF ~IsSome(to) THEN Err(ctx, AddressParseError)
             ELSE context_transfer_coins(ctx, from, to, raw_amount, TRUE)

\* Variant: the length of the datastore key is not checked.
message_trigger_unbounded(filter) ==
  LET a == Address_from_str(filter[1])
  IN IF ~IsSome(a) THEN [ok |-> FALSE, err |-> AddressParseError]
     ELSE [ok |-> TRUE, v |-> Some([address |-> a.v, datastore_key |-> filter[2]])]

\* The filter argument of send_message turned into a trigger: the closure of
\* lines 715-726, ok with Some(trigger) or an error.
message_trigger(filter) ==
  LET addr == filter[1]
      datastore_key == filter[2]
  IN IF IsSome(datastore_key) /\ Len(datastore_key.v) > MAX_DATASTORE_KEY_LENGTH
     THEN [ok |-> FALSE, err |-> "datastore key is too long"]
     ELSE LET a == Address_from_str(addr)
          IN IF ~IsSome(a) THEN [ok |-> FALSE, err |-> AddressParseError]
             ELSE [ok |-> TRUE,
                   v |-> Some([address |-> a.v, datastore_key |-> datastore_key])]

\* send_message after the two reads of lines 695-696: the debits, the message
\* built with the slot and the index read, the push and the increment (lines
\* 697-730).
send_message_emit(ctx, emission_slot, emission_index, target_address, target_handler, validity_start, validity_end, max_gas, raw_fee, raw_coins, data, filter) ==
  LET sender == context_get_current_address(ctx)
  IN IF ~IsSome(sender) THEN Err(ctx, "EmptyCallStack")
     ELSE
       LET t1 == context_transfer_coins(ctx, sender, None, raw_coins, TRUE)
       IN IF ~t1.ok THEN t1
          ELSE
            LET t2 == context_transfer_coins(t1.ctx, sender, None, raw_fee, TRUE)
            IN IF ~t2.ok THEN t2
               ELSE
                 LET destination == Address_from_str(target_address)
                 IN IF ~IsSome(destination) THEN Err(t2.ctx, AddressParseError)
                    ELSE
                      LET trigger == IF IsSome(filter) THEN message_trigger(filter.v)
                                     ELSE [ok |-> TRUE, v |-> None]
                      IN IF ~trigger.ok THEN Err(t2.ctx, trigger.err)
                         ELSE
                           LET msg == [emission_slot |-> emission_slot,
                                       emission_index |-> emission_index,
                                       sender |-> sender.v,
                                       destination |-> destination.v,
                                       handler |-> target_handler,
                                       max_gas |-> max_gas,
                                       fee |-> raw_fee,
                                       coins |-> raw_coins,
                                       validity_start |-> validity_start,
                                       validity_end |-> validity_end,
                                       data |-> data,
                                       trigger |-> trigger.v]
                               pushed == context_push_new_message(t2.ctx, msg)
                           IN Ok([pushed EXCEPT !.created_message_index = @ + 1], <<>>)

\* send_message from the lock acquisition on (lines 694-730).
send_message_locked(ctx, target_address, target_handler, validity_start, validity_end, max_gas, raw_fee, raw_coins, data, filter) ==
  LET emission_slot == ctx.slot
      emission_index == ctx.created_message_index
  IN send_message_emit(ctx, emission_slot, emission_index, target_address, target_handler,
                       validity_start, validity_end, max_gas, raw_fee, raw_coins, data, filter)

\* Variant: created_message_index is not incremented.
send_message_no_increment(ctx, target_address, target_handler, validity_start, validity_end, max_gas, raw_fee, raw_coins, data, filter) ==
  IF validity_start[2] >= ThreadCount
  THEN Err(ctx, "validity start thread exceeds the configuration thread count")
  ELSE IF validity_end[2] >= ThreadCount
  THEN Err(ctx, "validity end thread exceeds the configuration thread count")
  ELSE LET r == send_message_locked(ctx, target_address, target_handler, validity_start,
                                    validity_end, max_gas, raw_fee, raw_coins, data, filter)
       IN IF r.ok
          THEN [r EXCEPT !.ctx.created_message_index = ctx.created_message_index]
          ELSE r

\* Variant: the thread checks compare with > instead of >=.
send_message_thread_gt(ctx, target_address, target_handler, validity_start, validity_end, max_gas, raw_fee, raw_coins, data, filter) ==
  IF validity_start[2] > ThreadCount
  THEN Err(ctx, "validity start thread exceeds the configuration thread count")
  ELSE IF validity_end[2] > ThreadCount
  THEN Err(ctx, "validity end thread exceeds the configuration thread count")
  ELSE send_message_locked(ctx, target_address, target_handler, validity_start,
                           validity_end, max_gas, raw_fee, raw_coins, data, filter)

\* Variant: only the fee is debited, the coins of the message are not.
send_message_fee_only(ctx, target_address, target_handler, validity_start, validity_end, max_gas, raw_fee, raw_coins, data, filter) ==
  IF validity_start[2] >= ThreadCount
  THEN Err(ctx, "validity start thread exceeds the configuration thread count")
  ELSE IF validity_end[2] >= ThreadCount
  THEN Err(ctx, "validity end thread exceeds the configuration thread count")
  ELSE LET r == send_message_locked(ctx, target_address, target_handler, validity_start,
                                    validity_end, max_gas, raw_fee, raw_coins, data, filter)
           sender == context_get_current_address(ctx)
       IN IF r.ok
          THEN [r EXCEPT !.ctx.ledger =
                  SetBalance(r.ctx.ledger, sender.v,
                             r.ctx.ledger[sender.v].balance + raw_coins)]
          ELSE r

send_message(ctx, target_address, target_handler, validity_start, validity_end, max_gas, raw_fee, raw_coins, data, filter) ==
  IF validity_start[2] >= ThreadCount
  THEN Err(ctx, "validity start thread exceeds the configuration thread count")
  ELSE IF validity_end[2] >= ThreadCount
  THEN Err(ctx, "validity end thread exceeds the configuration thread count")
  ELSE send_message_locked(ctx, target_address, target_handler, validity_start,
                           validity_end, max_gas, raw_fee, raw_coins, data, filter)

get_balance(ctx) ==
  LET address == context_get_current_address(ctx)
  IN IF ~IsSome(address) THEN Err(ctx, "EmptyCallStack")
     ELSE Ok(ctx, unwrap_or_default(context_get_balance(ctx, address.v)))

\* Variant: an address missing from the ledger is an error.
get_balance_for_strict(ctx, address) ==
  LET addr == Address_from_str(address)
  IN IF ~IsSome(addr) THEN Err(ctx, AddressParseError)
     ELSE LET b == context_get_balance(ctx, addr.v)
          IN IF IsSome(b) THEN Ok(ctx, b.v) ELSE Err(ctx, "balance not found")

get_balance_for(ctx, address) ==
  LET addr == Address_from_str(address)
  IN IF ~IsSome(addr) THEN Err(ctx, AddressParseError)
     ELSE Ok(ctx, unwrap_or_default(context_get_balance(ctx, addr.v)))

\* Variant: the new address is handed to the bottom frame of the stack, not
\* to the current one.
create_module_owned_by_bottom(ctx, bytecode) ==
  LET r == context_create_new_sc_address(ctx, bytecode)
  IN IF r.ok
     THEN Ok([r.ctx EXCEPT !.stack = [ctx.stack EXCEPT ![1].owned_addresses =
                                                         Append(@, r.ret)]],
             Address_to_string(r.ret))
     ELSE Err(r.ctx, "couldn't create new SC address: " \o r.err)

create_module(ctx, bytecode) ==
  LET r == context_create_new_sc_address(ctx, bytecode)
  IN IF r.ok THEN Ok(r.ctx, Address_to_string(r.ret))
     ELSE Err(r.ctx, "couldn't create new SC address: " \o r.err)

\* Variant: a missing entry reads as the empty value.
raw_get_data_for_default(ctx, address, key) ==
  LET addr == Address_from_str(address)
  IN IF ~IsSome(addr) THEN Err(ctx, AddressParseError)
     ELSE LET value == context_get_data_entry(ctx, addr.v, key)
          IN IF IsSome(value) THEN Ok(ctx, value.v) ELSE Ok(ctx, <<>>)

raw_get_data_for(ctx, address, key) ==
  LET addr == Address_from_str(address)
  IN IF ~IsSome(addr) THEN Err(ctx, AddressParseError)
     ELSE LET value == context_get_data_entry(ctx, addr.v, key)
          IN IF IsSome(value) THEN Ok(ctx, value.v) ELSE Err(ctx, "data entry not found")

raw_get_data(ctx, key) ==
  LET addr == context_get_current_address(ctx)
  IN IF ~IsSome(addr) THEN Err(ctx, "EmptyCallStack")
     ELSE LET data == context_get_data_entry(ctx, addr.v, key)
          IN IF IsSome(data) THEN Ok(ctx, data.v) ELSE Err(ctx, "data entry not found")

\* Variant: the owned addresses looked at are always those of the top frame.
caller_has_write_access_top(ctx) ==
  IF ctx.stack = <<>> THEN Err(ctx, "empty stack")
  ELSE LET caller_owned_addresses == ctx.stack[Len(ctx.stack)].owned_addresses
           current_address == context_get_current_address(ctx)
       IN Ok(ctx, SeqContains(caller_owned_addresses, current_address.v))

caller_has_write_access(ctx) ==
  IF ctx.stack = <<>> THEN Err(ctx, "empty stack")
  ELSE LET last_frame == ctx.stack[Len(ctx.stack)]
           caller_owned_addresses ==
             IF Len(ctx.stack) >= 2
             THEN ctx.stack[Len(ctx.stack) - 1].owned_addresses
             ELSE last_frame.owned_addresses
           current_address == context_get_current_address(ctx)
       IN Ok(ctx, SeqContains(caller_owned_addresses, current_address.v))

raw_get_bytecode_for(ctx, address) ==
  LET addr == Address_from_str(address)
  IN IF ~IsSome(addr) THEN Err(ctx, AddressParseError)
     ELSE LET bytecode == context_get_bytecode(ctx, addr.v)
          IN IF IsSome(bytecode) THEN Ok(ctx, bytecode.v) ELSE Err(ctx, "bytecode not found")

\* Variant: the bytecode is written into the ledger entry directly, without
\* the access check of set_bytecode.
raw_set_bytecode_for_unchecked(ctx, address, bytecode) ==
  LET addr == Address_from_str(address)
  IN IF ~IsSome(addr) THEN Err(ctx, AddressParseError)
     ELSE IF addr.v \notin DOMAIN ctx.ledger
     THEN Err(ctx, "couldn't set address bytecode: AddressNotFound")
     ELSE Ok([ctx EXCEPT !.ledger[addr.v].bytecode = bytecode], <<>>)

raw_set_bytecode_for(ctx, address, bytecode) ==
  LET addr == Address_from_str(address)
  IN IF ~IsSome(addr) THEN Err(ctx, AddressParseError)
     ELSE LET r == context_set_bytecode(ctx, addr.v, bytecode)
          IN IF r.ok THEN r ELSE Err(r.ctx, "couldn't set address bytecode: " \o r.err)

\* Variant: a missing entry is created with the appended bytes.
raw_append_data_for_upsert(ctx, address, key, value) ==
  LET addr == Address_from_str(address)
  IN IF ~IsSome(addr) THEN Err(ctx, AddressParseError)
     ELSE IF context_has_data_entry(ctx, addr.v, key)
     THEN context_append_data_entry(ctx, addr.v, key, value)
     ELSE context_set_data_entry(ctx, addr.v, key, value)

raw_append_data_for(ctx, address, key, value) ==
  LET addr == Address_from_str(address)
  IN IF ~IsSome(addr) THEN Err(ctx, AddressParseError)
     ELSE context_append_data_entry(ctx, addr.v, key, value)

raw_delete_data_for(ctx, address, key) ==
  LET addr == Address_from_str(address)
  IN IF ~IsSome(addr) THEN Err(ctx, AddressParseError)
     ELSE context_delete_data_entry(ctx, addr.v, key)

has_data_for(ctx, address, key) ==
  LET addr == Address_from_str(address)
  IN IF ~IsSome(addr) THEN Err(ctx, AddressParseError)
     ELSE Ok(ctx, context_has_data_entry(ctx, addr.v, key))

\* Variant: an address without a ledger entry has no keys.
get_keys_for_or_default(ctx, address) ==
  LET addr == Address_from_str(address)
  IN IF ~IsSome(addr) THEN Err(ctx, AddressParseError)
     ELSE LET value == context_get_keys(ctx, addr.v)
          IN IF IsSome(value) THEN Ok(ctx, value.v) ELSE Ok(ctx, {})

get_keys(ctx) ==
  LET addr == context_get_current_address(ctx)
  IN IF ~IsSome(addr) THEN Err(ctx, "EmptyCallStack")
     ELSE LET value == context_get_keys(ctx, addr.v)
          IN IF IsSome(value) THEN Ok(ctx, value.v) ELSE Err(ctx, "data entry not found")

get_keys_for(ctx, address) ==
  LET addr == Address_from_str(address)
  IN IF ~IsSome(addr) THEN Err(ctx, AddressParseError)
     ELSE LET value == context_get_keys(ctx, addr.v)
          IN IF IsSome(value) THEN Ok(ctx, value.v) ELSE Err(ctx, "data entry not found")

\* The operation datastore of the top frame, as the three getters below
\* look it up (lines 449-453, 470-474, 491-495).
current_operation_datastore(ctx) ==
  IF ctx.stack = <<>> THEN Err(ctx, "No stack")
  ELSE IF ~IsSome(ctx.stack[Len(ctx.stack)].operation_datastore)
  THEN Err(ctx, "No datastore in stack")
  ELSE Ok(ctx, ctx.stack[Len(ctx.stack)].operation_datastore.v)

\* The keys in the order of the BTreeMap, taken as a set.
get_op_keys(ctx) ==
  LET datastore == current_operation_datastore(ctx)
  IN IF ~datastore.ok THEN datastore ELSE Ok(ctx, DOMAIN datastore.ret)

has_op_key(ctx, key) ==
  LET datastore == current_operation_datastore(ctx)
  IN IF ~datastore.ok THEN datastore ELSE Ok(ctx, key \in DOMAIN datastore.ret)

get_op_data(ctx, key) ==
  LET datastore == current_operation_datastore(ctx)
  IN IF ~datastore.ok THEN datastore
     ELSE IF key \in DOMAIN datastore.ret THEN Ok(ctx, datastore.ret[key])
     ELSE Err(ctx, "Unknown key")

get_owned_addresses(ctx) ==
  LET owned == context_get_current_owned_addresses(ctx)
  IN IF ~IsSome(owned) THEN Err(ctx, "EmptyCallStack")
     ELSE Ok(ctx, [i \in 1..Len(owned.v) |-> Address_to_string(owned.v[i])])

get_call_stack(ctx) ==
  Ok(ctx, [i \in 1..Len(context_get_call_stack(ctx)) |->
             Address_to_string(context_get_call_stack(ctx)[i])])

\* Variant: no coins are reported on an empty stack.
get_call_coins_or_zero(ctx) ==
  Ok(ctx, unwrap_or_default(context_get_current_call_coins(ctx)))

get_call_coins(ctx) ==
  LET coins == context_get_current_call_coins(ctx)
  IN IF ~IsSome(coins) THEN Err(ctx, "EmptyCallStack") ELSE Ok(ctx, coins.v)

(***************************************************************************)
\* Variant: a timestamp that also counts the messages the context has sent.
get_time_of_messages(ctx) ==
  LET ts == get_block_slot_timestamp(ThreadCount, ConfigT0, ConfigGenesisTimestamp, ctx.slot)
  IN IF ~IsSome(ts) THEN Err(ctx, "TimeOverflowError")
     ELSE Ok(ctx, ts.v + ctx.created_message_index)

get_time(ctx) ==
  LET ts == get_block_slot_timestamp(ThreadCount, ConfigT0, ConfigGenesisTimestamp, ctx.slot)
  IN IF ~IsSome(ts) THEN Err(ctx, "TimeOverflowError") ELSE Ok(ctx, ts.v)

\* The sample is the generator's next state, read as a number of
\* i64::MIN..=i64::MAX scaled to the generator.
unsafe_random(ctx) ==
  Ok([ctx EXCEPT !.unsafe_rng = Rng_next(ctx.unsafe_rng)],
     Rng_next(ctx.unsafe_rng) - (RngPeriod \div 2))

\* The sample is the generator's next state, read as a fraction in [0, 1):
\* its numerator and denominator.
unsafe_random_f64(ctx) ==
  Ok([ctx EXCEPT !.unsafe_rng = Rng_next(ctx.unsafe_rng)],
     <<Rng_next(ctx.unsafe_rng), RngPeriod>>)

get_current_period(ctx) == Ok(ctx, ctx.slot[1])

get_current_thread(ctx) == Ok(ctx, ctx.slot[2])

(***************************************************************************)
(* Address as bytes (address.rs): the prefixed bytes and their readers.    *)
(***************************************************************************)
\* What a call that reaches todo!() ends with: a panic, no value.
Panicked == [some |-> FALSE, panic |-> TRUE]

\* Address::hash_bytes; for an SC address impl From<HashedSCAddress> for
\* Vec<u8>, which is todo!() below 8 bytes.
hash_bytes(a) ==
  IF a.kind = "User" THEN Some(a.bytes)
  ELSE IF Len(a.bytes) >= HASHED_SC_MIN_LEN THEN Some(a.bytes)
  ELSE Panicked

\* Address::prefixed_bytes: b'U' or b'S', then the hash bytes.
prefixed_bytes(a) ==
  IF ~IsSome(hash_bytes(a)) THEN hash_bytes(a)
  ELSE Some(<<IF a.kind = "User" THEN 85 ELSE 83>> \o hash_bytes(a).v)

\* Address::from_prefixed_bytes
from_prefixed_bytes(data) ==
  IF data = <<>> THEN None
  ELSE IF data[1] = 85
  THEN IF Len(data) - 1 = HASH_SIZE_BYTES THEN Some([kind |-> "User", bytes |-> Tail(data)])
       ELSE None
  ELSE IF data[1] = 83
  THEN Some([kind |-> "SC", bytes |-> HashedSCAddress_from_bytes(Tail(data))])
  ELSE None

\* SCAddressDeserializer from the index `i` on.
SCAddress_after_index(period, thread, i) ==
  IF ~IsSome(i) \/ i.v.rest = <<>> \/ Head(i.v.rest) \notin {0, 1} THEN None
  ELSE Some([rest |-> Tail(i.v.rest),
             value |-> [kind |-> "SC",
                        bytes |-> HashedSCAddress_from_SCAddress(
                                    [slot |-> <<period, thread>>, idx |-> i.v.value,
                                     is_write |-> Head(i.v.rest) = 1])]])

\* The three fields SCAddressDeserializer reads after the period `p`: the
\* thread byte (below the thread count), the index, the is_write byte (0 or
\* 1); the address is made from them as From<SCAddress> does.
SCAddress_after_period(p) ==
  IF ~IsSome(p) \/ p.v.rest = <<>> \/ Head(p.v.rest) >= ThreadCount THEN None
  ELSE SCAddress_after_index(p.v.value, Head(p.v.rest),
                             U64VarInt_deserialize(Tail(p.v.rest)))

\* sc_parser and user_parser under alt: the address and the bytes left.
AddressDeserializer_deserialize(buffer) ==
  IF buffer = <<>> THEN None
  ELSE IF buffer[1] = 85
  THEN IF Len(buffer) - 1 < HASH_SIZE_BYTES THEN None
       ELSE Some([rest |-> SubSeq(buffer, HASH_SIZE_BYTES + 2, Len(buffer)),
                  value |-> [kind |-> "User",
                             bytes |-> SubSeq(buffer, 2, HASH_SIZE_BYTES + 1)]])
  ELSE IF buffer[1] = 83
  THEN SCAddress_after_period(U64VarInt_deserialize(Tail(buffer)))
  ELSE None

(***************************************************************************)
(* massa_signature and massa_hash as signature_verify uses them. The       *)
(* digest and the signature scheme are abstracted to sums of the bytes: a  *)
(* signature verifies when it is the one made from the key and the hash.   *)
(***************************************************************************)
\* Signature::from_bs58_check: the checked bytes, None when the string does
\* not decode or its check code is wrong.
Signature_from_bs58_check(s) == bs58_decode_with_check(s)

\* PublicKey::from_str: 'P' and the checked bytes of the key.
PublicKey_from_str(s) ==
  IF Len(s) < 1 \/ s[1] # "P" THEN None ELSE bs58_decode_with_check(Tail(s))

\* Hash::compute_from
Hash_compute_from(data) == <<Bs58Mix[data, 5] % 256>>

\* The signature of the hash under the key, and PublicKey::verify_signature.
SignatureOf(public_key, h) == <<Bs58Mix[public_key \o h, 3] % 256>>
verify_signature(public_key, h, signature) == signature = SignatureOf(public_key, h)

\* Variant: a signature that does not parse is returned as an error.
signature_verify_propagate(ctx, data, signature, public_key) ==
  IF ~IsSome(Signature_from_bs58_check(signature)) THEN Err(ctx, "SignatureParseError")
  ELSE IF ~IsSome(PublicKey_from_str(public_key)) THEN Ok(ctx, FALSE)
  ELSE Ok(ctx, verify_signature(PublicKey_from_str(public_key).v,
                                Hash_compute_from(data),
                                Signature_from_bs58_check(signature).v))

signature_verify(ctx, data, signature, public_key) ==
  IF ~IsSome(Signature_from_bs58_check(signature)) THEN Ok(ctx, FALSE)
  ELSE IF ~IsSome(PublicKey_from_str(public_key)) THEN Ok(ctx, FALSE)
  ELSE Ok(ctx, verify_signature(PublicKey_from_str(public_key).v,
                                Hash_compute_from(data),
                                Signature_from_bs58_check(signature).v))

\* The arguments of signature_verify explored: two keys, the signature of
\* <<1>> under the first, and strings that do not parse.
SignedData == {<<1>>, <<2>>}
PublicKeyStrs ==
  {<<"P">> \o bs58_encode_with_check(k) : k \in {<<21>>, <<22>>}}
  \cup {<<"X", "2">>, <<"P", "0">>}
SignatureStrs ==
  {bs58_encode_with_check(SignatureOf(<<21>>, Hash_compute_from(<<1>>))), <<"0">>, <<"2", "2">>}

(***************************************************************************)
(* Host threads and locks: the Mutex around each ExecutionContext          *)
(* (context_guard!) and the lock of the module cache the contexts share.   *)
(***************************************************************************)
\* The host threads that call the interface, and the context each uses:
\* threads 1 and 2 hold clones of one InterfaceImpl, thread 3 runs another
\* context.
Callers == {1, 2, 3}
ContextIds == {1, 2}
ContextOf(t) == IF t = 3 THEN 2 ELSE 1

\* A thread outside any interface call.
Returned == [at |-> "returned", op |-> "", args |-> <<>>, guard |-> FALSE]

\* The bytecodes and gas limits handed to get_module: one that compiles and
\* one that does not.
ModuleBytecodes == {<<10>>, <<>>}
GasLimits == {1}

\* The calls a thread makes: every call on the first context, get_module
\* alone on the second, whose other state is not followed.
InterfaceCalls(t) ==
  {[op |-> "get_module", args |-> <<b, l>>] : b \in ModuleBytecodes, l \in GasLimits}
  \cup (IF ContextOf(t) # 1 THEN {}
        ELSE {[op |-> "transfer_coins", args |-> <<s, n>>] :
                s \in {StrB, StrBad}, n \in RawAmounts}
             \cup {[op |-> "get_balance", args |-> <<>>]})

\* Whether the call gets as far as context_guard!: transfer_coins parses
\* its address first and returns the error without locking.
ReachesGuard(call) ==
  call.op = "transfer_coins" => IsSome(Address_from_str(call.args[1]))

\* The body of the call, run on the locked context.
RunCall(ctx, call) ==
  IF call.op = "transfer_coins" THEN transfer_coins(ctx, call.args[1], call.args[2])
  ELSE get_balance(ctx)

\* Variant: the guard is forgotten, not dropped, and the mutex stays locked.
MutexGuard_forget(lock, c) == lock

\* The drop of a MutexGuard at the end of its scope, on Ok and on `?` alike.
MutexGuard_drop(lock, c) == [lock EXCEPT ![c] = FALSE]

\* Variant: a lock that is never held, so that nothing waits for it.
Mutex_lock_absent(lock, c) == lock

\* Mutex::lock, once the mutex is free.
Mutex_lock(lock, c) == [lock EXCEPT ![c] = TRUE]

\* RwLock::write may proceed: no writer and no reader.
RwLock_can_write(rw) == ~rw.writer /\ rw.readers = 0

\* ModuleCache::get_module: the cached module on a hit; on a miss the
\* bytecode is compiled and the module inserted, or the compilation fails.
ModuleCache_get_module(cache, bytecode, limit) ==
  IF <<bytecode, limit>> \in cache
  THEN [ok |-> TRUE, err |-> "", hit |-> TRUE, cache |-> cache]
  ELSE IF bytecode = <<>>
  THEN [ok |-> FALSE, err |-> "ModuleCompilationError", hit |-> FALSE, cache |-> cache]
  ELSE [ok |-> TRUE, err |-> "", hit |-> FALSE, cache |-> cache \cup {<<bytecode, limit>>}]

(***************************************************************************)
(* The state machine: one action per interface operation.                  *)
(***************************************************************************)
\* A second context made for the same slot with the same seed; what else it
\* holds (ledger, stack, counters) differs from the first.
ReplayContext ==
  [ledger |-> (AddrB :> [balance |-> 1, bytecode |-> <<11>>, datastore |-> <<>>]),
   stack |-> << ExecutionStackElement(AddrB, 1, <<AddrB>>, None) >>,
   messages |-> <<>>, created_message_index |-> 1, slot |-> ExecutionSlot,
   created_addr_index |-> 1, unsafe_rng |-> Rng_from_seed(SlotSeed(ExecutionSlot))]

SetCtx(c) ==
  /\ ledger' = c.ledger
  /\ stack' = c.stack
  /\ messages' = c.messages
  /\ created_message_index' = c.created_message_index
  /\ slot' = c.slot
  /\ created_addr_index' = c.created_addr_index
  /\ unsafe_rng' = c.unsafe_rng

\* What no call on the first context touches.
FactoryVars == <<prev_slot, factory_running, pool>>
RetrieverVars == <<retriever_at, command_rx, workers, tasks, stopping, launching, last_delta>>
OutsideVars == <<replay, FactoryVars, RetrieverVars>>

Called(op, r) ==
  /\ SetCtx(r.ctx)
  /\ last' = [op |-> op, ok |-> r.ok, err |-> r.err]
  /\ UNCHANGED <<context_lock, cache_lock, module_cache, calls, OutsideVars>>

\* new_default: the bottom frame of the sender and the sender's ledger entry.
Init ==
  /\ ledger = (AddrA :> [balance |-> 2, bytecode |-> <<10>>, datastore |-> <<>>]) @@
              (AddrB :> [balance |-> 1, bytecode |-> <<11>>, datastore |-> <<>>])
  /\ \E operation_datastore \in {Some((<<1>> :> <<5>>))} :
       stack = << ExecutionStackElement(AddrA, 0, <<AddrA>>, operation_datastore) >>
  /\ messages = <<>>
  /\ created_message_index = 0
  /\ slot = ExecutionSlot
  /\ created_addr_index = 0
  /\ last = [op |-> "new", ok |-> TRUE, err |-> ""]
  /\ open_calls = <<>>
  /\ context_lock = [c \in ContextIds |-> FALSE]
  /\ cache_lock = [writer |-> FALSE, readers |-> 0]
  /\ module_cache = {}
  /\ calls = [t \in Callers |-> Returned]
  /\ unsafe_rng = Rng_from_seed(SlotSeed(ExecutionSlot))
  /\ replay = [ctx |-> ReplayContext, last |-> [op |-> "new", ok |-> TRUE, err |-> ""]]
  /\ prev_slot = None
  /\ factory_running = TRUE
  /\ pool = {}
  /\ retriever_at = "select"
  /\ command_rx = [queue |-> <<>>, closed |-> FALSE]
  /\ workers = <<>>
  /\ tasks = <<>>
  /\ stopping = {}
  /\ launching = <<>>
  /\ last_delta = None

InitCall ==
  /\ Len(stack) < MaxDepth
  /\ \E address \in AddrStrs, raw_coins \in CallCoins :
       LET r == init_call(Ctx, address, raw_coins)
       IN /\ Called("init_call", r)
          /\ open_calls' = IF r.ok THEN Append(open_calls, stack) ELSE open_calls

FinishCall ==
  LET r == finish_call(Ctx)
  IN /\ Called("finish_call", r)
     /\ open_calls' = IF r.ok /\ open_calls # <<>>
                      THEN SubSeq(open_calls, 1, Len(open_calls) - 1)
                      ELSE open_calls

RawSetDataFor ==
  \E address \in AddrStrs, key \in DataKeys, value \in DataValues :
    /\ Called("raw_set_data_for", raw_set_data_for(Ctx, address, key, value))
    /\ UNCHANGED open_calls

TransferCoins ==
  \E to_address \in TransferStrs, raw_amount \in RawAmounts :
    /\ Called("transfer_coins", transfer_coins(Ctx, to_address, raw_amount))
    /\ UNCHANGED open_calls

TransferCoinsFor ==
  \E from_address \in TransferStrs, to_address \in TransferStrs, raw_amount \in RawAmounts :
    /\ Called("transfer_coins_for",
              transfer_coins_for(Ctx, from_address, to_address, raw_amount))
    /\ UNCHANGED open_calls

SendMessage ==
  /\ created_message_index < MaxMsgs
  /\ \E in \in SendInputs :
       /\ Called("send_message",
                 send_message(Ctx, in[1], "handler", <<1, in[2]>>, <<2, in[3]>>, 1,
                              in[4], in[5], <<9>>, in[6]))
       /\ UNCHANGED open_calls

CreateModule ==
  /\ created_addr_index < MaxCreated
  /\ \E bytecode \in Bytecodes :
       /\ Called("create_module", create_module(Ctx, bytecode))
       /\ UNCHANGED open_calls

CallerHasWriteAccess ==
  /\ Called("caller_has_write_access", caller_has_write_access(Ctx))
  /\ UNCHANGED open_calls

GetBalance ==
  /\ Called("get_balance", get_balance(Ctx))
  /\ UNCHANGED open_calls

GetBalanceFor ==
  \E address \in AddrStrs :
    /\ Called("get_balance_for", get_balance_for(Ctx, address))
    /\ UNCHANGED open_calls

RawGetDataFor ==
  \E address \in AddrStrs, key \in DataKeys :
    /\ Called("raw_get_data_for", raw_get_data_for(Ctx, address, key))
    /\ UNCHANGED open_calls

RawGetData ==
  \E key \in DataKeys :
    /\ Called("raw_get_data", raw_get_data(Ctx, key))
    /\ UNCHANGED open_calls

RawGetBytecodeFor ==
  \E address \in AddrStrs :
    /\ Called("raw_get_bytecode_for", raw_get_bytecode_for(Ctx, address))
    /\ UNCHANGED open_calls

RawSetBytecodeFor ==
  \E address \in AddrStrs, bytecode \in Bytecodes :
    /\ Called("raw_set_bytecode_for", raw_set_bytecode_for(Ctx, address, bytecode))
    /\ UNCHANGED open_calls

RawAppendDataFor ==
  /\ \A a \in DOMAIN ledger : \A k \in DOMAIN ledger[a].datastore :
       Len(ledger[a].datastore[k]) < MaxValueLen
  /\ \E address \in AddrStrs, key \in DataKeys, value \in DataValues :
       /\ Called("raw_append_data_for", raw_append_data_for(Ctx, address, key, value))
       /\ UNCHANGED open_calls

RawDeleteDataFor ==
  \E address \in AddrStrs, key \in DataKeys :
    /\ Called("raw_delete_data_for", raw_delete_data_for(Ctx, address, key))
    /\ UNCHANGED open_calls

HasDataFor ==
  \E address \in AddrStrs, key \in DataKeys :
    /\ Called("has_data_for", has_data_for(Ctx, address, key))
    /\ UNCHANGED open_calls

GetKeys ==
  /\ Called("get_keys", get_keys(Ctx))
  /\ UNCHANGED open_calls

GetKeysFor ==
  \E address \in AddrStrs :
    /\ Called("get_keys_for", get_keys_for(Ctx, address))
    /\ UNCHANGED open_calls

GetOpKeys ==
  /\ Called("get_op_keys", get_op_keys(Ctx))
  /\ UNCHANGED open_calls

HasOpKey ==
  \E key \in OpKeys :
    /\ Called("has_op_key", has_op_key(Ctx, key))
    /\ UNCHANGED open_calls

GetOpData ==
  \E key \in OpKeys :
    /\ Called("get_op_data", get_op_data(Ctx, key))
    /\ UNCHANGED open_calls

GetOwnedAddresses ==
  /\ Called("get_owned_addresses", get_owned_addresses(Ctx))
  /\ UNCHANGED open_calls

GetCallStack ==
  /\ Called("get_call_stack", get_call_stack(Ctx))
  /\ UNCHANGED open_calls

GetCallCoins ==
  /\ Called("get_call_coins", get_call_coins(Ctx))
  /\ UNCHANGED open_calls

SignatureVerify ==
  \E data \in SignedData, signature \in SignatureStrs, public_key \in PublicKeyStrs :
    /\ Called("signature_verify", signature_verify(Ctx, data, signature, public_key))
    /\ UNCHANGED open_calls

Next ==
  \/ InitCall
  \/ FinishCall
  \/ RawSetDataFor
  \/ TransferCoins
  \/ TransferCoinsFor
  \/ SendMessage

Spec == Init /\ [][Next]_vars

\* The calls of a module that creates addresses and asks for its own
\* capability and for balances, between nested calls.
NextCap ==
  \/ InitCall
  \/ FinishCall
  \/ CreateModule
  \/ CallerHasWriteAccess
  \/ GetBalance
  \/ GetBalanceFor

SpecCap == Init /\ [][NextCap]_vars

\* transfer_coins towards an address this context's create_module has yet to
\* derive: the strings of the addresses of (slot, index) are known beforehand.
TransferCoinsToCreated ==
  \E to_address \in CreatedStrs, raw_amount \in RawAmounts :
    /\ Called("transfer_coins", transfer_coins(Ctx, to_address, raw_amount))
    /\ UNCHANGED open_calls

\* The calls of a module that creates addresses and sends coins to the
\* addresses created, between nested calls.
NextCreate ==
  \/ InitCall
  \/ FinishCall
  \/ CreateModule
  \/ TransferCoinsToCreated
  \/ TransferCoins
  \/ GetBalanceFor

SpecCreate == Init /\ [][NextCreate]_vars

\* The calls of a module that reads and writes datastore entries and
\* bytecode, between nested calls.
NextStore ==
  \/ InitCall
  \/ FinishCall
  \/ RawGetDataFor
  \/ RawGetData
  \/ RawSetDataFor
  \/ RawGetBytecodeFor
  \/ RawSetBytecodeFor

SpecStore == Init /\ [][NextStore]_vars

\* The calls of a module that writes, extends, deletes and lists datastore
\* entries, between nested calls.
NextData ==
  \/ InitCall
  \/ FinishCall
  \/ RawSetDataFor
  \/ RawAppendDataFor
  \/ RawDeleteDataFor
  \/ HasDataFor
  \/ GetKeys
  \/ GetKeysFor

SpecData == Init /\ [][NextData]_vars

\* The calls of a module that reads the operation datastore and looks at
\* the call stack, between nested calls.
NextIntro ==
  \/ InitCall
  \/ FinishCall
  \/ GetOpKeys
  \/ HasOpKey
  \/ GetOpData
  \/ GetOwnedAddresses
  \/ GetCallStack
  \/ GetCallCoins
  \/ SignatureVerify

SpecIntro == Init /\ [][NextIntro]_vars

(***************************************************************************)
(* Addresses on their own: the conversions of address.rs applied to the    *)
(* addresses, strings and byte vectors below.                              *)
(***************************************************************************)
\* Cap on the length of the strings handed to the parser.
MaxStrLen == 3

\* Letters of the prefixes, a base-58 digit and a character outside base 58.
AddrChars == {"A", "U", "S", "2", "0"}
ShortStrs == UNION {[1..n -> AddrChars] : n \in 0..MaxStrLen}

\* Hashes of public keys: 32 bytes each, one starting with zero bytes.
UserHashes == {[i \in 1..HASH_SIZE_BYTES |-> 7], [i \in 1..HASH_SIZE_BYTES |-> i - 1],
               [i \in 1..HASH_SIZE_BYTES |-> IF i < 3 THEN 0 ELSE 200 + i]}
UserAddrs == {[kind |-> "User", bytes |-> h] : h \in UserHashes}
\* Address::SC(SCAddress::new(slot, idx, is_write).into())
TripleAddr(sl, idx, is_write) ==
  [kind |-> "SC",
   bytes |-> HashedSCAddress_from_SCAddress([slot |-> sl, idx |-> idx,
                                             is_write |-> is_write])]
TripleAddrs == {TripleAddr(sl, idx, w) : sl \in {<<0, 1>>, <<1, 0>>, <<130, 1>>},
                                         idx \in {0, 3, 200}, w \in BOOLEAN}
\* The strings of those addresses, each computed once.
AddrString == [a \in UserAddrs \cup TripleAddrs |-> Address_to_string(a)]
\* Each of them with its second letter replaced or its last character cut.
DamagedStrs == {[AddrString[a] EXCEPT ![2] = "X"] : a \in UserAddrs}
               \cup {SubSeq(AddrString[a], 1, Len(AddrString[a]) - 1) : a \in UserAddrs}
ParseStrs == ShortStrs \cup {AddrString[a] : a \in DOMAIN AddrString} \cup DamagedStrs
ParsedStr == [s \in ParseStrs |-> Address_FromStr(s)]
\* The addresses a program holds: built, or parsed from a string.
HeldAddrs == DOMAIN AddrString \cup {ParsedStr[s].v : s \in {t \in ParseStrs : IsSome(ParsedStr[t])}}
PrefixedBytes == [a \in HeldAddrs |-> prefixed_bytes(a)]
\* Byte vectors handed to the readers: the prefixed bytes above, those with
\* one byte cut or added, and a few that are no address.
ByteInputs ==
  {PrefixedBytes[a].v : a \in {b \in HeldAddrs : IsSome(PrefixedBytes[b])}}
  \cup {SubSeq(PrefixedBytes[a].v, 1, Len(PrefixedBytes[a].v) - 1) : a \in UserAddrs}
  \cup {PrefixedBytes[a].v \o <<9>> : a \in UserAddrs}
  \cup {<<>>, <<85>>, <<83>>, <<84, 1>>, <<83, 0, 1, 3, 1>>, <<83, 0, ThreadCount, 3, 1>>,
        <<83, 0, 1, 3, 2>>, <<83, 1>>}

AddressFromStr ==
  \E s \in ParseStrs :
    /\ last' = [op |-> "Address::from_str", ok |-> IsSome(ParsedStr[s]),
                err |-> IF IsSome(ParsedStr[s]) THEN "" ELSE "AddressParseError",
                arg |-> s, ret |-> ParsedStr[s]]
    /\ UNCHANGED <<ledger, stack, messages, created_message_index, slot,
                   created_addr_index, open_calls, context_lock, cache_lock,
                   module_cache, calls, unsafe_rng, OutsideVars>>

AddressToString ==
  \E a \in DOMAIN AddrString :
    /\ last' = [op |-> "Address::to_string", ok |-> TRUE, err |-> "",
                arg |-> a, ret |-> AddrString[a]]
    /\ UNCHANGED <<ledger, stack, messages, created_message_index, slot,
                   created_addr_index, open_calls, context_lock, cache_lock,
                   module_cache, calls, unsafe_rng, OutsideVars>>

AddressPrefixedBytes ==
  \E a \in HeldAddrs :
    /\ last' = [op |-> "Address::prefixed_bytes", ok |-> IsSome(PrefixedBytes[a]),
                err |-> IF IsSome(PrefixedBytes[a]) THEN "" ELSE "panic",
                arg |-> a, ret |-> PrefixedBytes[a]]
    /\ UNCHANGED <<ledger, stack, messages, created_message_index, slot,
                   created_addr_index, open_calls, context_lock, cache_lock,
                   module_cache, calls, unsafe_rng, OutsideVars>>

AddressFromPrefixedBytes ==
  \E data \in ByteInputs :
    /\ last' = [op |-> "Address::from_prefixed_bytes", ok |-> IsSome(from_prefixed_bytes(data)),
                err |-> IF IsSome(from_prefixed_bytes(data)) THEN "" ELSE "AddressParseError",
                arg |-> data, ret |-> from_prefixed_bytes(data)]
    /\ UNCHANGED <<ledger, stack, messages, created_message_index, slot,
                   created_addr_index, open_calls, context_lock, cache_lock,
                   module_cache, calls, unsafe_rng, OutsideVars>>

AddressDeserialize ==
  \E buffer \in ByteInputs :
    /\ last' = [op |-> "AddressDeserializer::deserialize",
                ok |-> IsSome(AddressDeserializer_deserialize(buffer)),
                err |-> IF IsSome(AddressDeserializer_deserialize(buffer)) THEN ""
                        ELSE "nom::Err",
                arg |-> buffer, ret |-> AddressDeserializer_deserialize(buffer)]
    /\ UNCHANGED <<ledger, stack, messages, created_message_index, slot,
                   created_addr_index, open_calls, context_lock, cache_lock,
                   module_cache, calls, unsafe_rng, OutsideVars>>

NextAddr ==
  \/ AddressFromStr
  \/ AddressToString
  \/ AddressPrefixedBytes
  \/ AddressFromPrefixedBytes
  \/ AddressDeserialize

SpecAddr == Init /\ [][NextAddr]_vars

(***************************************************************************)
(* Interface calls of several host threads, step by step: the call, the    *)
(* lock of the context, the lock of the module cache, the return.          *)
(***************************************************************************)
\* The context's own fields, which only a call on the first context changes.
CtxVars == <<ledger, stack, messages, created_message_index, slot, created_addr_index,
             unsafe_rng>>

\* A thread enters an interface function whose arguments parse.
CallInterface(t) ==
  /\ calls[t].at = "returned"
  /\ \E call \in InterfaceCalls(t) :
       /\ ReachesGuard(call)
       /\ calls' = [calls EXCEPT ![t] = [at |-> "called", op |-> call.op,
                                         args |-> call.args, guard |-> FALSE]]
  /\ UNCHANGED <<CtxVars, last, open_calls, context_lock, cache_lock, module_cache, OutsideVars>>

\* A call returns the parse error of its argument, before context_guard!.
ReturnBeforeLock(t) ==
  /\ calls[t].at = "returned"
  /\ \E call \in InterfaceCalls(t) :
       /\ ~ReachesGuard(call)
       /\ last' = [op |-> call.op, ok |-> FALSE, err |-> AddressParseError]
  /\ UNCHANGED <<CtxVars, open_calls, context_lock, cache_lock, module_cache, calls, OutsideVars>>

\* context_guard!(self): the thread waits until the mutex is free.
ContextGuard(t) ==
  /\ calls[t].at = "called"
  /\ ~context_lock[ContextOf(t)]
  /\ context_lock' = Mutex_lock(context_lock, ContextOf(t))
  /\ calls' = [calls EXCEPT ![t].at = "locked", ![t].guard = TRUE]
  /\ UNCHANGED <<CtxVars, last, open_calls, cache_lock, module_cache, OutsideVars>>

\* The body of a call other than get_module and its return: the guard goes
\* out of scope whether the body ended with Ok or with an error.
ReturnCall(t) ==
  /\ calls[t].at = "locked"
  /\ calls[t].op # "get_module"
  /\ SetCtx(RunCall(Ctx, calls[t]).ctx)
  /\ last' = [op |-> calls[t].op, ok |-> RunCall(Ctx, calls[t]).ok,
              err |-> RunCall(Ctx, calls[t]).err]
  /\ context_lock' = MutexGuard_drop(context_lock, ContextOf(t))
  /\ calls' = [calls EXCEPT ![t] = Returned]
  /\ UNCHANGED <<open_calls, cache_lock, module_cache, OutsideVars>>

\* get_module: context.module_cache.write(), under the context's guard.
ModuleCacheWrite(t) ==
  /\ calls[t].at = "locked"
  /\ calls[t].op = "get_module"
  /\ RwLock_can_write(cache_lock)
  /\ cache_lock' = [cache_lock EXCEPT !.writer = TRUE]
  /\ calls' = [calls EXCEPT ![t].at = "cache"]
  /\ UNCHANGED <<CtxVars, last, open_calls, context_lock, module_cache, OutsideVars>>

\* get_module: the lookup in the cache and the return, which drops the
\* write guard of the cache and the guard of the context.
GetModule(t) ==
  /\ calls[t].at = "cache"
  /\ module_cache' = ModuleCache_get_module(module_cache, calls[t].args[1],
                                            calls[t].args[2]).cache
  /\ last' = [op |-> "get_module",
              ok |-> ModuleCache_get_module(module_cache, calls[t].args[1],
                                            calls[t].args[2]).ok,
              err |-> ModuleCache_get_module(module_cache, calls[t].args[1],
                                             calls[t].args[2]).err]
  /\ cache_lock' = [cache_lock EXCEPT !.writer = FALSE]
  /\ context_lock' = MutexGuard_drop(context_lock, ContextOf(t))
  /\ calls' = [calls EXCEPT ![t] = Returned]
  /\ UNCHANGED <<CtxVars, open_calls, OutsideVars>>

NextLock ==
  \/ \E t \in Callers : CallInterface(t)
  \/ \E t \in Callers : ReturnBeforeLock(t)
  \/ \E t \in Callers : ContextGuard(t)
  \/ \E t \in Callers : ReturnCall(t)
  \/ \E t \in Callers : ModuleCacheWrite(t)
  \/ \E t \in Callers : GetModule(t)

SpecLock == Init /\ [][NextLock]_vars

(***************************************************************************)
(* send_message called by the two threads that hold clones of one          *)
(* InterfaceImpl, step by step: the thread checks, the lock, the reads of  *)
(* the slot and the counter, the rest of the body and the return.          *)
(***************************************************************************)
SendCallers == {t \in Callers : ContextOf(t) = 1}

\* The argument tuples the threads send, as in SendInputs, without a filter.
ConcurrentSends == {in \in SendInputs : in[6] = None}

\* Whether the thread checks of lines 688-693 let the call through.
send_message_reaches_guard(in) == in[2] < ThreadCount /\ in[3] < ThreadCount

\* A thread enters send_message with threads in range; the data of the
\* message names the thread.
CallSendMessage(t) ==
  /\ calls[t].at = "returned"
  /\ created_message_index + Cardinality({u \in SendCallers : calls[u].at # "returned"}) < MaxMsgs
  /\ \E in \in ConcurrentSends :
       /\ send_message_reaches_guard(in)
       /\ calls' = [calls EXCEPT ![t] = [at |-> "called", op |-> "send_message",
                                         args |-> <<in, <<t>> >>, guard |-> FALSE]]
  /\ UNCHANGED <<CtxVars, last, open_calls, context_lock, cache_lock, module_cache, OutsideVars>>

\* send_message bails on a thread out of range, before context_guard!.
SendReturnBeforeLock(t) ==
  /\ calls[t].at = "returned"
  /\ \E in \in ConcurrentSends :
       /\ ~send_message_reaches_guard(in)
       /\ last' = [op |-> "send_message", ok |-> FALSE,
                   err |-> send_message(Ctx, in[1], "handler", <<1, in[2]>>, <<2, in[3]>>, 1,
                                        in[4], in[5], <<t>>, in[6]).err]
  /\ UNCHANGED <<CtxVars, open_calls, context_lock, cache_lock, module_cache, calls, OutsideVars>>

\* Lines 695-696: the slot and the counter are read into locals, under the
\* guard.
SendRead(t) ==
  /\ calls[t].at = "locked"
  /\ calls[t].op = "send_message"
  /\ calls' = [calls EXCEPT ![t].at = "read",
                            ![t].args = Append(@, <<slot, created_message_index>>)]
  /\ UNCHANGED <<CtxVars, last, open_calls, context_lock, cache_lock, module_cache, OutsideVars>>

\* Lines 697-731: the rest of the body with the values read, and the return,
\* which drops the guard.
SendReturn(t) ==
  /\ calls[t].at = "read"
  /\ \E r \in {send_message_emit(Ctx, calls[t].args[3][1], calls[t].args[3][2],
                                 calls[t].args[1][1], "handler",
                                 <<1, calls[t].args[1][2]>>, <<2, calls[t].args[1][3]>>, 1,
                                 calls[t].args[1][4], calls[t].args[1][5],
                                 calls[t].args[2], calls[t].args[1][6])} :
       /\ SetCtx(r.ctx)
       /\ last' = [op |-> "send_message", ok |-> r.ok, err |-> r.err]
  /\ context_lock' = MutexGuard_drop(context_lock, ContextOf(t))
  /\ calls' = [calls EXCEPT ![t] = Returned]
  /\ UNCHANGED <<open_calls, cache_lock, module_cache, OutsideVars>>

NextSend ==
  \/ \E t \in SendCallers : CallSendMessage(t)
  \/ \E t \in SendCallers : SendReturnBeforeLock(t)
  \/ \E t \in SendCallers : ContextGuard(t)
  \/ \E t \in SendCallers : SendRead(t)
  \/ \E t \in SendCallers : SendReturn(t)

SpecSend == Init /\ [][NextSend]_vars

(***************************************************************************)
(* Block retriever (block_retrieval/retriever.rs, worker.rs): one task     *)
(* that takes commands from a channel and keeps one worker task per block  *)
(* of the wishlist.                                                        *)
(***************************************************************************)
BlockIds == {1, 2}

\* `added` of a WishlistDelta: block id -> whether a header comes with it.
AddedMaps == UNION {[S -> BOOLEAN] : S \in SUBSET BlockIds}
\* The commands sent to the retriever: wishlist deltas, and the commands
\* about one block (HeaderReceived, BlockOpListReceived, BlockOpsReceived).
WishlistDeltas == [kind : {"WishlistDelta"}, added : AddedMaps, removed : SUBSET BlockIds]
BlockCommands == [kind : {"HeaderReceived", "BlockOpListReceived", "BlockOpsReceived"},
                  block_id : BlockIds]

\* Where a worker task is in Worker::run: waiting in one of its three
\* retrievals, building the block, or returned.
RetrievalsOfWorker == {"retrieve_header", "retrieve_block_op_list", "retrieve_missing_ops"}
FinishedWorker == {"returned Ok", "returned Err"}

\* A task is finished once Worker::run has returned: its JoinHandle is ready.
JoinHandle_is_finished(task) == task.at \in FinishedWorker

\* start_worker on st = [workers, tasks]: nothing when the block has a
\* worker; otherwise a task is spawned, which starts Worker::run (with the
\* header it is given, or by retrieving one), and its handle is inserted.
start_worker(st, block_id, opt_header) ==
  IF block_id \in DOMAIN st.workers THEN st
  ELSE [workers |-> [b \in DOMAIN st.workers \cup {block_id} |->
                       IF b = block_id THEN Len(st.tasks) + 1 ELSE st.workers[b]],
        tasks |-> Append(st.tasks,
                         [block_id |-> block_id,
                          at |-> IF opt_header THEN "retrieve_block_op_list"
                                 ELSE "retrieve_header"])]

\* The loop of lines 115-117 over `added`; the blocks are distinct keys, so
\* the order of the iteration only numbers the tasks.
RECURSIVE start_workers(_, _)
start_workers(st, added) ==
  IF DOMAIN added = {} THEN st
  ELSE LET block_id == CHOOSE b \in DOMAIN added : \A c \in DOMAIN added : b <= c
       IN start_workers(start_worker(st, block_id, added[block_id]),
                        [b \in DOMAIN added \ {block_id} |-> added[b]])

\* A sender puts a command into the channel.
SendCommand ==
  /\ ~command_rx.closed
  /\ Len(command_rx.queue) < MaxQueued
  /\ \E cmd \in WishlistDeltas \cup BlockCommands :
       /\ cmd.kind = "WishlistDelta"
            => Len(tasks) + Cardinality(DOMAIN launching) + Cardinality(DOMAIN cmd.added)
                 <= MaxSpawned
       /\ command_rx' = [command_rx EXCEPT !.queue = Append(@, cmd)]
  /\ UNCHANGED <<CtxVars, last, open_calls, context_lock, cache_lock, module_cache, calls,
                 replay, FactoryVars, retriever_at, workers, tasks, stopping, launching,
                 last_delta>>

\* The last sender of commands is dropped.
CloseCommands ==
  /\ ~command_rx.closed
  /\ command_rx' = [command_rx EXCEPT !.closed = TRUE]
  /\ UNCHANGED <<CtxVars, last, open_calls, context_lock, cache_lock, module_cache, calls,
                 replay, FactoryVars, retriever_at, workers, tasks, stopping, launching,
                 last_delta>>

\* run takes a WishlistDelta (lines 84-87) and process_command goes as far
\* as its await (lines 105-113): the workers of `removed` are taken out of
\* the map, their command senders dropped, their handles awaited.
ProcessWishlistDelta ==
  /\ retriever_at = "select"
  /\ command_rx.queue # <<>>
  /\ Head(command_rx.queue).kind = "WishlistDelta"
  /\ command_rx' = [command_rx EXCEPT !.queue = Tail(@)]
  /\ stopping' = {workers[b] : b \in Head(command_rx.queue).removed \cap DOMAIN workers}
  /\ workers' = [b \in DOMAIN workers \ Head(command_rx.queue).removed |-> workers[b]]
  /\ launching' = Head(command_rx.queue).added
  /\ last_delta' = Some([added |-> DOMAIN Head(command_rx.queue).added,
                         removed |-> Head(command_rx.queue).removed])
  /\ retriever_at' = "stop removed"
  /\ UNCHANGED <<CtxVars, last, open_calls, context_lock, cache_lock, module_cache, calls,
                 replay, FactoryVars, tasks>>

\* Every awaited handle is ready: process_command launches the workers of
\* `added` (lines 115-117) and run is back at its select.
LaunchAdded ==
  /\ retriever_at = "stop removed"
  /\ \A t \in stopping : JoinHandle_is_finished(tasks[t])
  /\ workers' = start_workers([workers |-> workers, tasks |-> tasks], launching).workers
  /\ tasks' = start_workers([workers |-> workers, tasks |-> tasks], launching).tasks
  /\ stopping' = {}
  /\ launching' = <<>>
  /\ retriever_at' = "select"
  /\ UNCHANGED <<CtxVars, last, open_calls, context_lock, cache_lock, module_cache, calls,
                 replay, FactoryVars, command_rx, last_delta>>

\* Any other command is taken and dropped (line 120).
ProcessBlockCommand ==
  /\ retriever_at = "select"
  /\ command_rx.queue # <<>>
  /\ Head(command_rx.queue).kind # "WishlistDelta"
  /\ command_rx' = [command_rx EXCEPT !.queue = Tail(@)]
  /\ UNCHANGED <<CtxVars, last, open_calls, context_lock, cache_lock, module_cache, calls,
                 replay, FactoryVars, retriever_at, workers, tasks, stopping, launching,
                 last_delta>>

\* recv returns None on the closed, empty channel: run breaks and awaits
\* the handles of all its workers (lines 85, 94-100).
StopAllWorkers ==
  /\ retriever_at = "select"
  /\ command_rx.queue = <<>>
  /\ command_rx.closed
  /\ stopping' = {workers[b] : b \in DOMAIN workers}
  /\ workers' = <<>>
  /\ retriever_at' = "stop all"
  /\ UNCHANGED <<CtxVars, last, open_calls, context_lock, cache_lock, module_cache, calls,
                 replay, FactoryVars, command_rx, tasks, launching, last_delta>>

\* Every handle is ready: run returns.
RetrieverReturn ==
  /\ retriever_at = "stop all"
  /\ \A t \in stopping : JoinHandle_is_finished(tasks[t])
  /\ stopping' = {}
  /\ retriever_at' = "returned"
  /\ UNCHANGED <<CtxVars, last, open_calls, context_lock, cache_lock, module_cache, calls,
                 replay, FactoryVars, command_rx, workers, tasks, launching, last_delta>>

\* One of the retrievals of Worker::run (lines 49, 57, 66) ends, with what
\* it waited for or with an error, which `?` returns; whether and when it
\* ends is up to what the worker waits for, whether or not the retriever
\* still has the worker in its map.
WorkerRetrieved(t) ==
  /\ t \in DOMAIN tasks
  /\ tasks[t].at \in RetrievalsOfWorker
  /\ \E next \in {"retrieve_block_op_list", "retrieve_missing_ops", "build", "returned Err"} :
       /\ tasks[t].at = "retrieve_header" => next \in {"retrieve_block_op_list", "returned Err"}
       /\ tasks[t].at = "retrieve_block_op_list"
            => next \in {"retrieve_missing_ops", "build", "returned Err"}
       /\ tasks[t].at = "retrieve_missing_ops" => next \in {"build", "returned Err"}
       /\ tasks' = [tasks EXCEPT ![t].at = next]
  /\ UNCHANGED <<CtxVars, last, open_calls, context_lock, cache_lock, module_cache, calls,
                 replay, FactoryVars, retriever_at, command_rx, workers, stopping, launching,
                 last_delta>>

\* The block is built and Worker::run returns (lines 70-83).
WorkerReturn(t) ==
  /\ t \in DOMAIN tasks
  /\ tasks[t].at = "build"
  /\ \E result \in FinishedWorker : tasks' = [tasks EXCEPT ![t].at = result]
  /\ UNCHANGED <<CtxVars, last, open_calls, context_lock, cache_lock, module_cache, calls,
                 replay, FactoryVars, retriever_at, command_rx, workers, stopping, launching,
                 last_delta>>

NextRetriever ==
  \/ SendCommand
  \/ CloseCommands
  \/ ProcessWishlistDelta
  \/ LaunchAdded
  \/ ProcessBlockCommand
  \/ StopAllWorkers
  \/ RetrieverReturn
  \/ \E t \in DOMAIN tasks : WorkerRetrieved(t)
  \/ \E t \in DOMAIN tasks : WorkerReturn(t)

SpecRetriever == Init /\ [][NextRetriever]_vars

\* The tokio runtime polls every task that can go on: the retriever takes
\* the command that waits and goes on once the handles it awaits are ready,
\* and a worker that has all it retrieved builds its block. When a sender
\* sends and when a retrieval of a worker ends is up to others.
FairRetriever ==
  /\ WF_vars(ProcessWishlistDelta)
  /\ WF_vars(LaunchAdded)
  /\ WF_vars(ProcessBlockCommand)
  /\ WF_vars(StopAllWorkers)
  /\ WF_vars(RetrieverReturn)
  /\ \A t \in 1..MaxSpawned : WF_vars(WorkerReturn(t))

SpecRetrieverFair == SpecRetriever /\ FairRetriever

(***************************************************************************)
(* Replay: the same time and random calls made on two contexts of the same *)
(* slot and seed.                                                          *)
(***************************************************************************)
\* One call `op` on both contexts: `r` is the result on the first, `q` on
\* the second.
CalledOnBoth(op, r, q) ==
  /\ SetCtx(r.ctx)
  /\ last' = [op |-> op, ok |-> r.ok, err |-> r.err, ret |-> r.ret]
  /\ replay' = [ctx |-> q.ctx, last |-> [op |-> op, ok |-> q.ok, err |-> q.err, ret |-> q.ret]]
  /\ UNCHANGED <<open_calls, context_lock, cache_lock, module_cache, calls, FactoryVars,
                 RetrieverVars>>

GetTime == CalledOnBoth("get_time", get_time(Ctx), get_time(replay.ctx))

GetCurrentPeriod ==
  CalledOnBoth("get_current_period", get_current_period(Ctx), get_current_period(replay.ctx))

GetCurrentThread ==
  CalledOnBoth("get_current_thread", get_current_thread(Ctx), get_current_thread(replay.ctx))

UnsafeRandom == CalledOnBoth("unsafe_random", unsafe_random(Ctx), unsafe_random(replay.ctx))

UnsafeRandomF64 ==
  CalledOnBoth("unsafe_random_f64", unsafe_random_f64(Ctx), unsafe_random_f64(replay.ctx))

NextReplay ==
  \/ GetTime
  \/ GetCurrentPeriod
  \/ GetCurrentThread
  \/ UnsafeRandom
  \/ UnsafeRandomF64

SpecReplay == Init /\ [][NextReplay]_vars

(***************************************************************************)
(* The endorsement factory (massa-factory-worker/endorsement_factory.rs):  *)
(* the loop of run, one turn to a step.                                    *)
(***************************************************************************)
\* Slots are ordered by period, then thread.
SlotLess(a, b) == a[1] < b[1] \/ (a[1] = b[1] /\ a[2] < b[2])

\* massa_models::timeslots::get_closest_slot_to_timestamp: the slot whose
\* timestamp is nearest to `timestamp`; the first slot before the genesis.
get_closest_slot_to_timestamp(thread_count, t0, genesis_timestamp, timestamp) ==
  LET since == IF timestamp > genesis_timestamp THEN timestamp - genesis_timestamp ELSE 0
      n == (since * thread_count + (t0 \div 2)) \div t0
  IN <<n \div thread_count, n % thread_count>>

\* Slot::get_next_slot: the next thread, or the first thread of the next
\* period.
Slot_get_next_slot(s, thread_count) ==
  IF s[2] + 1 >= thread_count THEN <<s[1] + 1, 0>> ELSE <<s[1], s[2] + 1>>

\* MassaTime::saturating_add
MassaTime_saturating_add(a, b) == IF a + b > MaxMillis THEN MaxMillis ELSE a + b

\* The slot nearest to `base_time`, or the one after `previous_slot` when
\* that is not later than `previous_slot`.
NextSlotAfter(previous_slot, closest) ==
  IF IsSome(previous_slot) /\ ~SlotLess(previous_slot.v, closest)
  THEN Slot_get_next_slot(previous_slot.v, ThreadCount)
  ELSE closest

\* Variant: the slot nearest to the clock, whatever was processed before.
get_next_slot_by_clock(previous_slot, now) ==
  get_closest_slot_to_timestamp(
    ThreadCount, ConfigT0, ConfigGenesisTimestamp,
    IF ~IsSome(previous_slot) THEN MassaTime_saturating_add(now, ConfigInitialDelay) ELSE now)

\* get_next_slot with the clock reading `now`: the slot to process next.
get_next_slot(previous_slot, now) ==
  NextSlotAfter(previous_slot,
    get_closest_slot_to_timestamp(
      ThreadCount, ConfigT0, ConfigGenesisTimestamp,
      IF ~IsSome(previous_slot) THEN MassaTime_saturating_add(now, ConfigInitialDelay) ELSE now))

\* The instant get_next_slot returns with the slot: half a t0 after the
\* slot's timestamp; None where the code panics on the timestamp.
get_next_slot_instant(next_slot) ==
  LET ts == get_block_slot_timestamp(ThreadCount, ConfigT0, ConfigGenesisTimestamp, next_slot)
  IN IF IsSome(ts) THEN Some(MassaTime_saturating_add(ts.v, ConfigT0 \div 2)) ELSE None

\* The (keypair, index) pairs process_slot goes on with: the vector is
\* declared empty and immutable (line 132), and the loop over the drawn
\* addresses (lines 135-143) finds the keypairs of the wallet but pushes none.
process_slot_producers_indices(wallet, producer_addrs) == <<>>

\* Endorsement::new_wrapped for each (keypair, index) pair.
process_slot_endorsements(producers_indices, s, endorsed_block) ==
  {[slot |-> s, index |-> producers_indices[i][2], endorsed_block |-> endorsed_block,
    creator_address |-> producers_indices[i][1]] : i \in 1..Len(producers_indices)}

\* process_slot: the endorsements handed to the pool for slot `s`, given the
\* answers of the selector and of consensus and the wallet's addresses.
process_slot(s, selection, wallet, block) ==
  IF ~selection.ok THEN {}
  ELSE IF process_slot_producers_indices(wallet, selection.v) = <<>> THEN {}
  ELSE IF ~block.ok THEN {}
  ELSE IF ~IsSome(block.v) THEN {}
  ELSE process_slot_endorsements(process_slot_producers_indices(wallet, selection.v),
                                 s, block.v.v)

\* The clock readings explored: before the genesis, and the slot times.
ClockInstants ==
  {0} \cup {ConfigGenesisTimestamp + k * (ConfigT0 \div ThreadCount) :
              k \in 0..(MaxPeriod * ThreadCount)}
\* selector.get_selection(slot): an error, or the drawn endorsement producers.
Selections ==
  {[ok |-> FALSE]} \cup {[ok |-> TRUE, v |-> <<a, b>>] : a \in {AddrA, AddrB}, b \in {AddrA, AddrB}}
\* The addresses whose keypair the wallet holds.
Wallets == {{}, {AddrA}}
\* consensus.get_blockclique_block_at_slot(slot): an error, a miss, a block.
BlockcliqueAnswers == {[ok |-> FALSE], [ok |-> TRUE, v |-> None], [ok |-> TRUE, v |-> Some(7)]}

\* One turn of the loop of run whose wait reaches the instant: the next
\* slot, process_slot on it, prev_slot.
FactoryTurn ==
  \E now \in ClockInstants, selection \in Selections, wallet \in Wallets,
     block \in BlockcliqueAnswers :
    /\ factory_running
    /\ get_next_slot(prev_slot, now)[1] <= MaxPeriod
    /\ IsSome(get_next_slot_instant(get_next_slot(prev_slot, now)))
    /\ pool' = pool \cup process_slot(get_next_slot(prev_slot, now), selection, wallet, block)
    /\ prev_slot' = Some(get_next_slot(prev_slot, now))
    /\ last' = [op |-> "process_slot", ok |-> TRUE, err |-> "",
                arg |-> [now |-> now, slot |-> get_next_slot(prev_slot, now),
                         selection |-> selection, wallet |-> wallet, block |-> block],
                ret |-> process_slot(get_next_slot(prev_slot, now), selection, wallet, block)]
    /\ UNCHANGED <<CtxVars, open_calls, context_lock, cache_lock, module_cache, calls,
                   replay, factory_running, RetrieverVars>>

\* The wait is interrupted (a message, or the sender dropped): run breaks.
FactoryStop ==
  /\ factory_running
  /\ factory_running' = FALSE
  /\ last' = [op |-> "run", ok |-> TRUE, err |-> ""]
  /\ UNCHANGED <<CtxVars, open_calls, context_lock, cache_lock, module_cache, calls,
                 replay, prev_slot, pool, RetrieverVars>>

NextFactory ==
  \/ FactoryTurn
  \/ FactoryStop

SpecFactory == Init /\ [][NextFactory]_vars

(***************************************************************************)
(* Properties.                                                             *)
(***************************************************************************)
RECURSIVE SumBalances(_, _)
SumBalances(l, as) ==
  IF as = {} THEN 0
  ELSE LET a == CHOOSE x \in as : TRUE
       IN l[a].balance + SumBalances(l, as \ {a})
TotalBalance(l) == SumBalances(l, DOMAIN l)

BalanceOf(l, a) == IF a \in DOMAIN l THEN l[a].balance ELSE 0

\* The frame the claims call "the caller of the current frame".
CallerFrameOf(st) == IF Len(st) > 1 THEN st[Len(st) - 1] ELSE st[Len(st)]
OwnedByCaller(st, a) ==
  st # <<>> /\ \E i \in 1..Len(CallerFrameOf(st).owned_addresses) :
                  CallerFrameOf(st).owned_addresses[i] = a

BottomFrame == ExecutionStackElement(AddrA, 0, <<AddrA>>, Some((<<1>> :> <<5>>)))

\* C1: every successful transfer_coins / transfer_coins_for step leaves the
\* sum of all balances as it was, so any sequence of them conserves value.
C1_Conservation ==
  [][(last'.op \in {"transfer_coins", "transfer_coins_for"} /\ last'.ok)
       => TotalBalance(ledger') = TotalBalance(ledger)]_vars

\* A successful transfer that moved coins between two different addresses.
C1_Witness ==
  /\ last.op \in {"transfer_coins", "transfer_coins_for"}
  /\ last.ok
  /\ ledger[AddrA].balance = 1
  /\ ledger[AddrB].balance = 2

C3_StackSymmetry ==
  [][/\ (last'.op = "init_call" /\ last'.ok) => Len(stack') = Len(stack) + 1
     /\ (last'.op = "finish_call" /\ last'.ok) => Len(stack') = Len(stack) - 1
     /\ (last'.op = "finish_call" /\ last'.ok /\ open_calls # <<>>)
          => Len(stack') = Len(open_calls[Len(open_calls)])]_vars

\* The inner of two nested calls has just been finished.
C3_Witness ==
  /\ last.op = "finish_call"
  /\ last.ok
  /\ Len(stack) = 2
  /\ Len(open_calls) = 1

EmittedBefore(m1, m2) ==
  \/ m1.emission_slot[1] < m2.emission_slot[1]
  \/ /\ m1.emission_slot[1] = m2.emission_slot[1]
     /\ m1.emission_slot[2] < m2.emission_slot[2]
  \/ /\ m1.emission_slot = m2.emission_slot
     /\ m1.emission_index < m2.emission_index

\* C6: the messages of the context are in strictly increasing
\* (emission_slot, emission_index) order of creation.
C6_MessageOrdering ==
  \A i, j \in 1..Len(messages) : i < j => EmittedBefore(messages[i], messages[j])

\* Two messages have been created, by different senders.
C6_Witness ==
  /\ Len(messages) = 2
  /\ messages[1].sender # messages[2].sender
  /\ last.op = "send_message"
  /\ last.ok

\* C7: a successful init_call(target, c) from a caller other than target
\* debits c from the caller, credits c to the target, pushes the frame
\* {target, c, {target}, None} and returns the target's bytecode.
C7_InitCallEffect ==
  \A address \in AddrStrs, c \in RawAmounts :
    LET target == Address_from_str(address)
        r == init_call(Ctx, address, c)
        caller == stack[Len(stack)].address
    IN (r.ok /\ caller # target.v)
         => /\ BalanceOf(r.ctx.ledger, caller) = BalanceOf(ledger, caller) - c
            /\ BalanceOf(r.ctx.ledger, target.v) = BalanceOf(ledger, target.v) + c
            /\ \A a \in DOMAIN ledger \ {caller, target.v} :
                 BalanceOf(r.ctx.ledger, a) = BalanceOf(ledger, a)
            /\ r.ctx.stack = Append(stack, [address |-> target.v, coins |-> c,
                                            owned_addresses |-> <<target.v>>,
                                            operation_datastore |-> None])
            /\ r.ret = ledger[target.v].bytecode

\* init_call(addrB, 1) from addrA has succeeded on the initial context.
C7_Witness ==
  /\ last.op = "init_call"
  /\ last.ok
  /\ Len(stack) = 2
  /\ stack[2].address = AddrB
  /\ stack[2].coins = 1
  /\ ledger[AddrA].balance = 1
  /\ ledger[AddrB].balance = 2

\* C8: an init_call whose caller holds less than raw_coins fails, pushes no
\* frame and changes no balance.
C8_InitCallTransferFails ==
  \A address \in AddrStrs, c \in RawAmounts :
    LET target == Address_from_str(address)
        r == init_call(Ctx, address, c)
    IN (/\ IsSome(target)
        /\ target.v \in DOMAIN ledger
        /\ stack # <<>>
        /\ BalanceOf(ledger, stack[Len(stack)].address) < c)
         => /\ ~r.ok
            /\ r.ctx.stack = stack
            /\ r.ctx.ledger = ledger

\* An init_call has failed for lack of funds while calls were open.
C8_Witness ==
  /\ last.op = "init_call"
  /\ ~last.ok
  /\ last.err = "error transferring coins: InsufficientBalance"
  /\ Len(stack) = 2

\* C9: init_call on a target without bytecode fails before any coin moves:
\* the context is left as it was.
C9_InitCallNoBytecode ==
  \A address \in AddrStrs, c \in RawAmounts :
    LET target == Address_from_str(address)
        r == init_call(Ctx, address, c)
    IN (IsSome(target) /\ target.v \notin DOMAIN ledger)
         => /\ ~r.ok
            /\ r.ctx.stack = stack
            /\ r.ctx.ledger = ledger

\* An init_call has failed on a target without bytecode, from a caller that
\* could have paid.
C9_Witness ==
  /\ last.op = "init_call"
  /\ ~last.ok
  /\ last.err = "bytecode not found"
  /\ stack # <<>>
  /\ BalanceOf(ledger, stack[Len(stack)].address) >= 1

\* C10: send_message with a validity thread >= thread_count fails and leaves
\* the ledger, the message queue and the message counter as they were.
C10_SendMessageThreadCheck ==
  \A target \in {StrB, StrBad}, tp \in ThreadPairs, fee \in {0, 1}, coins \in {0, 1},
     filter \in Filters :
    LET r == send_message(Ctx, target, "handler", <<1, tp[1]>>, <<2, tp[2]>>, 1,
                          fee, coins, <<9>>, filter)
    IN (tp[1] >= ThreadCount \/ tp[2] >= ThreadCount)
         => /\ ~r.ok
            /\ r.ctx.ledger = ledger
            /\ r.ctx.messages = messages
            /\ r.ctx.created_message_index = created_message_index

\* A send_message has been refused for its validity end thread, by a sender
\* able to pay the fee.
C10_Witness ==
  /\ last.op = "send_message"
  /\ ~last.ok
  /\ last.err = "validity end thread exceeds the configuration thread count"
  /\ stack # <<>>
  /\ BalanceOf(ledger, stack[Len(stack)].address) >= 1

\* C11: a successful send_message(fee, coins) takes exactly fee + coins from
\* the balance of the current address and from no other, appends exactly one
\* message, sent by the current address and stamped with the context slot and
\* the message counter as it was before the call, and adds 1 to the counter.
C11_SendMessageEffect ==
  \A target \in {StrA, StrB}, fee \in {0, 1, 2}, coins \in {0, 1, 2},
     filter \in {None, Some(<<StrB, Some(<<1>>)>>)} :
    LET r == send_message(Ctx, target, "handler", <<1, 0>>, <<2, ThreadCount - 1>>, 1,
                          fee, coins, <<9>>, filter)
        current == stack[Len(stack)].address
    IN r.ok
         => /\ BalanceOf(r.ctx.ledger, current) = BalanceOf(ledger, current) - (fee + coins)
            /\ \A a \in (DOMAIN ledger \cup DOMAIN r.ctx.ledger) \ {current} :
                 BalanceOf(r.ctx.ledger, a) = BalanceOf(ledger, a)
            /\ Len(r.ctx.messages) = Len(messages) + 1
            /\ SubSeq(r.ctx.messages, 1, Len(messages)) = messages
            /\ r.ctx.messages[Len(messages) + 1].sender = current
            /\ r.ctx.messages[Len(messages) + 1].emission_slot = slot
            /\ r.ctx.messages[Len(messages) + 1].emission_index = created_message_index
            /\ r.ctx.messages[Len(messages) + 1].fee = fee
            /\ r.ctx.messages[Len(messages) + 1].coins = coins
            /\ r.ctx.created_message_index = created_message_index + 1

\* A message with fee 1 and coins 1 has been sent from inside a nested call:
\* the sender is the address of the top frame and has paid 2.
C11_Witness ==
  /\ last.op = "send_message"
  /\ last.ok
  /\ Len(stack) = 2
  /\ Len(messages) = 1
  /\ messages[1].sender = stack[2].address
  /\ messages[1].fee = 1
  /\ messages[1].coins = 1
  /\ ledger[stack[2].address].balance = 0

\* C12: a send_message whose filter carries a datastore key longer than
\* MAX_DATASTORE_KEY_LENGTH returns an error, enqueues no message and leaves
\* the message counter as it was.
C12_OversizedFilterKey ==
  \A target \in {StrB, StrBad}, fee \in {0, 1}, coins \in {0, 1}, faddr \in {StrB, StrBad},
     key \in {LongKey} :
    LET r == send_message(Ctx, target, "handler", <<1, 0>>, <<2, ThreadCount - 1>>, 1,
                          fee, coins, <<9>>, Some(<<faddr, Some(key)>>))
    IN /\ Len(key) > MAX_DATASTORE_KEY_LENGTH
       /\ ~r.ok
       /\ r.ctx.messages = messages
       /\ r.ctx.created_message_index = created_message_index

\* A send_message has been refused for its filter key, by a sender that could
\* pay, after an earlier message was accepted.
C12_Witness ==
  /\ last.op = "send_message"
  /\ ~last.ok
  /\ last.err = "datastore key is too long"
  /\ Len(messages) = 1
  /\ created_message_index = 1

\* C13: transfer_coins(B, x) from the current address A fails when A holds
\* less than x and when B cannot take x more, and a transfer_coins that fails
\* leaves every balance, those of A and B included, as it was.
C13_TransferAtomic ==
  \A to_address \in AddrStrs, x \in 1..(MaxRawAmount + 1) :
    LET to == Address_from_str(to_address)
        r == transfer_coins(Ctx, to_address, x)
        A == stack[Len(stack)].address
    IN /\ ~r.ok => r.ctx.ledger = ledger
       /\ (stack # <<>> /\ IsSome(to))
            => /\ BalanceOf(ledger, A) < x => ~r.ok
               /\ (to.v # A /\ BalanceOf(ledger, to.v) + x > MaxRawAmount) => ~r.ok
               /\ ~r.ok => /\ BalanceOf(r.ctx.ledger, A) = BalanceOf(ledger, A)
                           /\ BalanceOf(r.ctx.ledger, to.v) = BalanceOf(ledger, to.v)

\* A transfer_coins that the sender could pay has failed on its credit leg,
\* and the sender still holds its coins.
C13_Witness ==
  /\ last.op = "transfer_coins"
  /\ ~last.ok
  /\ last.err = "AmountOverflow"
  /\ stack # <<>>
  /\ BalanceOf(ledger, stack[Len(stack)].address) >= 1

\* C14: in every state reached by init_call, transfer_coins,
\* transfer_coins_for and send_message calls, no balance is below zero.
C14_NonNegativeBalances == \A a \in DOMAIN ledger : ledger[a].balance >= 0

\* A debit that would have taken a balance of zero below zero has been
\* refused.
C14_Witness ==
  /\ last.op \in {"transfer_coins", "transfer_coins_for", "send_message"}
  /\ ~last.ok
  /\ last.err = "InsufficientBalance"
  /\ stack # <<>>
  /\ ledger[stack[Len(stack)].address].balance = 0

\* C15: caller_has_write_access fails on an empty stack; otherwise it
\* returns, without changing the context, whether the address of the top
\* frame is among the owned addresses of the frame below the top (of the top
\* frame itself at depth 1).
C15_CallerHasWriteAccess ==
  LET r == caller_has_write_access(Ctx)
  IN IF stack = <<>>
     THEN ~r.ok
     ELSE /\ r.ok
          /\ r.ret <=> OwnedByCaller(stack, stack[Len(stack)].address)
          /\ r.ctx = Ctx

\* caller_has_write_access has been asked inside a nested call whose address
\* the calling frame does not own: it answers FALSE.
C15_Witness ==
  /\ last.op = "caller_has_write_access"
  /\ last.ok
  /\ Len(stack) = 2
  /\ stack[2].address # stack[1].address
  /\ caller_has_write_access(Ctx).ret = FALSE

C17_SetBytecodeFor ==
  \A address \in AddrStrs, b \in Bytecodes \cup {<<13>>} :
    LET addr == Address_from_str(address)
        r == raw_set_bytecode_for(Ctx, address, b)
        after == raw_get_bytecode_for(r.ctx, address)
    IN IsSome(addr)
         => /\ (~OwnedByCaller(stack, addr.v) \/ addr.v \notin DOMAIN ledger)
                 => /\ ~r.ok
                    /\ r.ctx.ledger = ledger
                    /\ after = raw_get_bytecode_for(Ctx, address)
            /\ r.ok => (after.ok /\ after.ret = b)

\* A raw_set_bytecode_for has been refused for lack of write access, in a
\* context where an earlier one was accepted.
C17_Witness ==
  /\ last.op = "raw_set_bytecode_for"
  /\ ~last.ok
  /\ last.err = "couldn't set address bytecode: NoWriteAccess"
  /\ \E a \in DOMAIN ledger : ledger[a].bytecode \in Bytecodes

\* C18: get_balance_for returns 0, and no error, for an address that is not
\* in the ledger and the balance held in the ledger for one that is;
\* get_balance does the same for the address of the top frame.
C18_GetBalance ==
  /\ \A address \in AddrStrs :
       LET addr == Address_from_str(address)
           r == get_balance_for(Ctx, address)
       IN IsSome(addr)
            => /\ r.ok
               /\ r.ret = IF addr.v \in DOMAIN ledger THEN ledger[addr.v].balance ELSE 0
               /\ r.ctx = Ctx
  /\ stack # <<>>
       => LET r == get_balance(Ctx)
              current == stack[Len(stack)].address
          IN /\ r.ok
             /\ r.ret = IF current \in DOMAIN ledger THEN ledger[current].balance ELSE 0
             /\ r.ctx = Ctx

\* get_balance_for has answered in a context where coins have moved and
\* where one of the addresses asked for is not in the ledger: it reads 0
\* for that one and the moved balance for the other.
C18_Witness ==
  /\ last.op = "get_balance_for"
  /\ last.ok
  /\ ParsedAddr[StrC].v \notin DOMAIN ledger
  /\ get_balance_for(Ctx, StrC).ret = 0
  /\ get_balance_for(Ctx, StrB).ret = 2

\* C19: raw_get_data_for(addr, key) returns the value stored for key at addr
\* and fails when addr has no such entry or is not in the ledger; raw_get_data
\* does the same for the address of the top frame; after a raw_set_data_for
\* (addr, key, v) that succeeds, both return v.
C19_RawGetData ==
  \A address \in AddrStrs, key \in DataKeys \cup {<<2>>} :
    LET addr == Address_from_str(address)
        r == raw_get_data_for(Ctx, address, key)
        has == addr.v \in DOMAIN ledger /\ key \in DOMAIN ledger[addr.v].datastore
        g == raw_get_data(Ctx, key)
    IN IsSome(addr)
         => /\ IF has THEN r.ok /\ r.ret = ledger[addr.v].datastore[key]
                      ELSE ~r.ok /\ r.err = "data entry not found"
            /\ (stack # <<>> /\ stack[Len(stack)].address = addr.v)
                 => (g.ok = r.ok /\ g.ret = r.ret /\ g.err = r.err)
            /\ \A v \in DataValues \cup {<<8>>} :
                 LET w == raw_set_data_for(Ctx, address, key, v)
                 IN w.ok => /\ raw_get_data_for(w.ctx, address, key).ok
                            /\ raw_get_data_for(w.ctx, address, key).ret = v
                            /\ stack[Len(stack)].address = addr.v
                                 => (raw_get_data(w.ctx, key).ok
                                     /\ raw_get_data(w.ctx, key).ret = v)

\* A raw_get_data_for has failed for a missing entry, in a context where
\* another address holds an entry.
C19_Witness ==
  /\ last.op = "raw_get_data_for"
  /\ ~last.ok
  /\ last.err = "data entry not found"
  /\ \E a \in DOMAIN ledger : DOMAIN ledger[a].datastore # {}
  /\ \E a \in DOMAIN ledger : DOMAIN ledger[a].datastore = {}

\* C20: raw_set_data_for(addr, key, v) on an address that is in the ledger
\* and writable succeeds and leaves the ledger as it was but for the entry
\* key of addr, now v, whether or not the entry was there; on an address that
\* is not in the ledger it fails and leaves the ledger as it was.
C20_RawSetDataFor ==
  \A address \in AddrStrs, key \in DataKeys \cup {<<2>>}, v \in DataValues \cup {<<8>>} :
    LET addr == Address_from_str(address)
        r == raw_set_data_for(Ctx, address, key, v)
    IN IsSome(addr)
         => /\ (addr.v \in DOMAIN ledger /\ OwnedByCaller(stack, addr.v))
                 => /\ r.ok
                    /\ r.ctx.ledger =
                         [ledger EXCEPT ![addr.v].datastore = (key :> v) @@ @]
            /\ addr.v \notin DOMAIN ledger
                 => (~r.ok /\ r.ctx.ledger = ledger)

\* A raw_set_data_for has succeeded at depth 3 in a context where the two
\* addresses of the ledger hold the entry.
C20_Witness ==
  /\ last.op = "raw_set_data_for"
  /\ last.ok
  /\ Len(stack) = 3
  /\ \A a \in DOMAIN ledger : DOMAIN ledger[a].datastore # {}

\* C21: raw_append_data_for and raw_delete_data_for fail and leave the
\* context as it was when the address is not in the ledger or has no entry
\* for the key; on a writable address that has the entry they succeed: append
\* leaves the entry equal to the old value followed by the appended bytes,
\* and after delete has_data_for returns false for the key; no other entry
\* changes.
C21_AppendDelete ==
  \A address \in AddrStrs, key \in DataKeys \cup {<<2>>}, v \in DataValues \cup {<<8, 9>>} :
    LET addr == Address_from_str(address)
        has == addr.v \in DOMAIN ledger /\ key \in DOMAIN ledger[addr.v].datastore
        a == raw_append_data_for(Ctx, address, key, v)
        d == raw_delete_data_for(Ctx, address, key)
    IN IsSome(addr)
         => /\ ~has => (~a.ok /\ a.ctx = Ctx /\ ~d.ok /\ d.ctx = Ctx)
            /\ (has /\ OwnedByCaller(stack, addr.v)) => (a.ok /\ d.ok)
            /\ a.ok => a.ctx = [Ctx EXCEPT !.ledger[addr.v].datastore[key] =
                                             ledger[addr.v].datastore[key] \o v]
            /\ d.ok => /\ has_data_for(d.ctx, address, key).ok
                       /\ has_data_for(d.ctx, address, key).ret = FALSE
                       /\ \A b \in DOMAIN ledger, k \in DataKeys \cup {<<2>>} :
                            (b # addr.v \/ k # key)
                              => context_get_data_entry(d.ctx, b, k)
                                   = context_get_data_entry(Ctx, b, k)

\* A raw_append_data_for has succeeded on an entry that held a value, which
\* now is that value and the appended bytes.
C21_Witness ==
  /\ last.op = "raw_append_data_for"
  /\ last.ok
  /\ \E a \in DOMAIN ledger : \E k \in DOMAIN ledger[a].datastore :
       Len(ledger[a].datastore[k]) = 2

\* C22 as claimed: get_keys_for, called for an address that is not in the
\* ledger, returns no not-found error, and neither does get_keys.
C22_GetKeysExempt ==
  /\ \A address \in AddrStrs :
       LET addr == Address_from_str(address)
       IN (IsSome(addr) /\ addr.v \notin DOMAIN ledger)
            => get_keys_for(Ctx, address).err # "data entry not found"
  /\ get_keys(Ctx).err # "data entry not found"

\* C22, amended: get_keys_for, called for an address that is not in the
\* ledger, fails with "data entry not found" and leaves the context as it
\* was; for an address in the ledger it returns the keys of its datastore,
\* none when the datastore is empty; get_keys does the same for the address
\* of the top frame.
C22_GetKeysNotFound ==
  /\ \A address \in AddrStrs :
       LET addr == Address_from_str(address)
           r == get_keys_for(Ctx, address)
       IN IsSome(addr)
            => /\ r.ctx = Ctx
               /\ IF addr.v \in DOMAIN ledger
                  THEN r.ok /\ r.ret = DOMAIN ledger[addr.v].datastore
                  ELSE ~r.ok /\ r.err = "data entry not found"
  /\ stack # <<>>
       => LET cur == stack[Len(stack)].address
              g == get_keys(Ctx)
          IN /\ g.ctx = Ctx
             /\ IF cur \in DOMAIN ledger
                THEN g.ok /\ g.ret = DOMAIN ledger[cur].datastore
                ELSE ~g.ok /\ g.err = "data entry not found"

\* A get_keys_for has failed for an address that is not in the ledger, in a
\* context where an address holds an entry.
C22_Witness ==
  /\ last.op = "get_keys_for"
  /\ ~last.ok
  /\ last.err = "data entry not found"
  /\ \E a \in DOMAIN ledger : DOMAIN ledger[a].datastore # {}

\* C23: only the bottom frame carries an operation datastore: every frame
\* above it has none, so get_op_keys, has_op_key and get_op_data fail while
\* the depth is above 1; and when the finish_call matching the first
\* init_call brings the depth back to 1 they return what they returned
\* before that init_call.
C23_OpDatastoreBottomOnly ==
  [][/\ \A i \in 2..Len(stack') : ~IsSome(stack'[i].operation_datastore)
     /\ Len(stack') > 1
          => /\ ~get_op_keys(Ctx').ok
             /\ get_op_keys(Ctx').err = "No datastore in stack"
             /\ \A key \in OpKeys :
                  /\ ~has_op_key(Ctx', key).ok
                  /\ ~get_op_data(Ctx', key).ok
                  /\ get_op_data(Ctx', key).err = "No datastore in stack"
     /\ (last'.op = "finish_call" /\ last'.ok /\ Len(stack') = 1)
          => LET before == [Ctx EXCEPT !.stack = open_calls[Len(open_calls)]]
             IN /\ get_op_keys(Ctx').ok
                /\ get_op_keys(Ctx').ret = get_op_keys(before).ret
                /\ get_op_keys(Ctx').ret # {}
                /\ \A key \in OpKeys :
                     /\ has_op_key(Ctx', key).ok
                     /\ has_op_key(Ctx', key).ret = has_op_key(before, key).ret
                     /\ get_op_data(Ctx', key).ok = get_op_data(before, key).ok
                     /\ get_op_data(Ctx', key).ret = get_op_data(before, key).ret]_vars

\* A get_op_data has succeeded at depth 1 after a nested call was finished:
\* the ledger shows the coins that call moved.
C23_Witness ==
  /\ last.op = "get_op_data"
  /\ last.ok
  /\ Len(stack) = 1
  /\ ledger[AddrA].balance < 2

C25_SignatureVerify ==
  \A data \in SignedData, signature \in SignatureStrs, public_key \in PublicKeyStrs :
    LET r == signature_verify(Ctx, data, signature, public_key)
        sig == Signature_from_bs58_check(signature)
        pubk == PublicKey_from_str(public_key)
    IN /\ r.ok
       /\ r.ctx = Ctx
       /\ (~IsSome(sig) \/ ~IsSome(pubk)) => r.ret = FALSE
       /\ r.ret = TRUE
            <=> /\ IsSome(sig)
                /\ IsSome(pubk)
                /\ verify_signature(pubk.v, Hash_compute_from(data), sig.v)

\* A signature_verify has returned, in a context where some argument
\* strings do not parse, a signature verifies, and the same signature does
\* not verify for other data or under another key.
C25_Witness ==
  /\ last.op = "signature_verify"
  /\ last.ok
  /\ \E signature \in SignatureStrs : ~IsSome(Signature_from_bs58_check(signature))
  /\ \E public_key \in PublicKeyStrs : ~IsSome(PublicKey_from_str(public_key))
  /\ \E data \in SignedData, signature \in SignatureStrs, public_key \in PublicKeyStrs :
       signature_verify(Ctx, data, signature, public_key).ret = TRUE
  /\ \E data \in SignedData, signature \in SignatureStrs, public_key \in PublicKeyStrs :
       /\ IsSome(Signature_from_bs58_check(signature))
       /\ IsSome(PublicKey_from_str(public_key))
       /\ signature_verify(Ctx, data, signature, public_key).ret = FALSE

\* C26: every user address and every smart-contract address built from a
\* (slot, index, is_write) triple parses back from its formatted string to an
\* equal address, the string is "A", then "U" or "S", then the encoded
\* payload, and the address of (slot (0, 1), index 3, is_write true) is
\* formatted as "AS1LiC".
C26_StringRoundTrip ==
  last.op = "Address::to_string"
    => /\ Address_from_str(last.ret) = Some(last.arg)
       /\ last.ret = <<"A", IF last.arg.kind = "User" THEN "U" ELSE "S">>
                       \o (IF last.arg.kind = "User"
                           THEN UserAddress_bs58_encode(last.arg.bytes)
                           ELSE bs58_encode(last.arg.bytes))
       /\ (last.arg = TripleAddr(<<0, 1>>, 3, TRUE)
             => last.ret = <<"A", "S", "1", "L", "i", "C">>)

\* C27: parsing a string as an address always ends with an address or with
\* AddressParseError, and it ends with AddressParseError for every string
\* that does not start with "A" followed by "U" or "S", the empty string and
\* the string "A" included.
C27_ParseTotal ==
  last.op = "Address::from_str"
    => /\ \/ last.ok /\ IsSome(last.ret) /\ last.ret.v.kind \in {"User", "SC"}
          \/ ~last.ok /\ last.ret = None /\ last.err = "AddressParseError"
       /\ ~(Len(last.arg) >= 2 /\ last.arg[1] = "A" /\ last.arg[2] \in {"U", "S"})
            => ~last.ok
C27_Witness ==
  /\ last.op = "Address::from_str"
  /\ Len(last.arg) = 3 /\ last.arg[1] = "A" /\ last.arg[2] = "2" /\ last.arg[3] = "2"
  /\ ~last.ok

\* C28: for every address of either kind, those parsed from a string
\* included, prefixed_bytes returns bytes from which from_prefixed_bytes
\* makes an equal address and from which AddressDeserializer reads an equal
\* address leaving no byte.
C28_ByteRoundTrip ==
  last.op = "Address::prefixed_bytes"
    => /\ last.ok
       /\ from_prefixed_bytes(last.ret.v) = Some(last.arg)
       /\ AddressDeserializer_deserialize(last.ret.v)
            = Some([rest |-> <<>>, value |-> last.arg])

\* C29: at most one interface call at a time holds the guard of a context's
\* lock, a thread that has returned from its call holds no guard, and the
\* lock of a context is free whenever no call holds its guard, so that the
\* next call can take it, whether the calls before it ended with Ok or with
\* an error.
C29_LockExclusion ==
  /\ \A t \in Callers, u \in Callers :
       (calls[t].guard /\ calls[u].guard /\ ContextOf(t) = ContextOf(u)) => t = u
  /\ \A t \in Callers : calls[t].at = "returned" => ~calls[t].guard
  /\ \A c \in ContextIds :
       (\A t \in Callers : ContextOf(t) = c => ~calls[t].guard) => ~context_lock[c]
\* A transfer failed under the lock and returned; the other thread of the
\* same context has taken the lock since, and the first waits for it again.
C29_Witness ==
  /\ last.op = "transfer_coins" /\ ~last.ok /\ last.err # AddressParseError
  /\ calls[2].guard /\ context_lock[1]
  /\ calls[1].at = "called"

\* C30: a get_module call holds exclusive access to the shared module cache
\* only while it inserts a newly compiled module, and while a call that hits
\* the cache holds its access, a call of another context that hits the cache
\* too can take its own.
C30_CacheReadManyWriteOne ==
  /\ \A t \in Callers :
       calls[t].at = "cache" => <<calls[t].args[1], calls[t].args[2]>> \notin module_cache
  /\ \A t \in Callers, u \in Callers :
       (/\ ContextOf(t) # ContextOf(u)
        /\ calls[t].at = "cache" /\ calls[u].at = "locked" /\ calls[u].op = "get_module"
        /\ <<calls[t].args[1], calls[t].args[2]>> \in module_cache
        /\ <<calls[u].args[1], calls[u].args[2]>> \in module_cache)
         => ENABLED ModuleCacheWrite(u)

\* C31: the same call made on two contexts of the same slot and seed returns
\* the same result in both (get_time, get_current_period, get_current_thread,
\* unsafe_random, unsafe_random_f64); get_time, get_current_period and
\* get_current_thread leave both contexts as they were; and no call changes
\* what get_time, get_current_period and get_current_thread return.
C31_DeterministicReplay ==
  [][/\ replay'.last = last'
     /\ last'.op \in {"get_time", "get_current_period", "get_current_thread"}
          => (Ctx' = Ctx /\ replay'.ctx = replay.ctx)
     /\ get_time(Ctx').ret = get_time(Ctx).ret
     /\ get_current_period(Ctx').ret = get_current_period(Ctx).ret
     /\ get_current_thread(Ctx').ret = get_current_thread(Ctx).ret]_vars

\* get_time has answered with the timestamp of slot (1, 0) after the
\* generator was sampled, and the two contexts still differ in their
\* message counters.
C31_Witness ==
  /\ last.op = "get_time"
  /\ last.ok
  /\ last.ret = ConfigGenesisTimestamp + ConfigT0
  /\ replay.last.ret = last.ret
  /\ unsafe_rng # Rng_from_seed(SlotSeed(ExecutionSlot))
  /\ replay.ctx.unsafe_rng = unsafe_rng
  /\ replay.ctx.created_message_index # created_message_index

\* C32: whatever the clock reads, get_next_slot(previous_slot) returns a slot
\* later than previous_slot, and every slot passed to process_slot is later
\* than the one passed before it (which run keeps in prev_slot).
C32_SlotsStrictlyIncrease ==
  [][/\ \A now \in ClockInstants :
          IsSome(prev_slot) => SlotLess(prev_slot.v, get_next_slot(prev_slot, now))
     /\ last'.op = "process_slot"
          => /\ IsSome(prev_slot) => SlotLess(prev_slot.v, last'.arg.slot)
             /\ prev_slot' = Some(last'.arg.slot)]_vars

\* The clock has gone back before the genesis after slot (1, 0) was
\* processed, and the slot processed next is (1, 1).
C32_Witness ==
  /\ last.op = "process_slot"
  /\ last.arg.now = 0
  /\ last.arg.slot = <<1, 1>>
  /\ prev_slot = Some(<<1, 1>>)

\* The drawn indices (from 0) whose address the wallet manages.
ManagedIndices(selection, wallet) ==
  {i \in 1..Len(selection.v) : selection.v[i] \in wallet}

\* C33: when process_slot runs for a slot whose draw holds an address of the
\* wallet and consensus has a blockclique block there, one endorsement per
\* managed drawn index, with that slot, index and block, is handed to the
\* pool; when no drawn address is managed nothing is handed over.
C33_EndorsementProduction ==
  (last.op = "process_slot" /\ last.arg.selection.ok)
    => /\ (ManagedIndices(last.arg.selection, last.arg.wallet) # {}
             /\ last.arg.block.ok /\ IsSome(last.arg.block.v))
            => /\ \A i \in ManagedIndices(last.arg.selection, last.arg.wallet) :
                    \E e \in last.ret :
                      /\ e.slot = last.arg.slot
                      /\ e.index = i - 1
                      /\ e.endorsed_block = last.arg.block.v.v
               /\ Cardinality(last.ret)
                    = Cardinality(ManagedIndices(last.arg.selection, last.arg.wallet))
               /\ last.ret \subseteq pool
       /\ ManagedIndices(last.arg.selection, last.arg.wallet) = {} => last.ret = {}

\* C34: whenever send_message returns an error, whatever the cause, the
\* balance of the sender (the current address), the outgoing queue and the
\* message counter are as they were before the call.
C34_SendMessageAllOrNothing ==
  [][(last'.op = "send_message" /\ ~last'.ok)
       => /\ stack # <<>>
            => BalanceOf(ledger', stack[Len(stack)].address)
                 = BalanceOf(ledger, stack[Len(stack)].address)
          /\ messages' = messages
          /\ created_message_index' = created_message_index]_vars

\* The fee and coins held by the messages of the outgoing queue.
RECURSIVE EscrowOf(_)
EscrowOf(ms) ==
  IF ms = <<>> THEN 0 ELSE Head(ms).fee + Head(ms).coins + EscrowOf(Tail(ms))

\* C35: every interface call, successful or failed, leaves the sum of all
\* balances plus the fee and coins of the queued messages as it was, so the
\* sum stays what the balances added up to when the context was created.
C35_EscrowAccounting ==
  [][TotalBalance(ledger') + EscrowOf(messages') = TotalBalance(ledger) + EscrowOf(messages)]_vars

\* C36: transfer_coins_for never lowers the balance of an address to which the
\* running code has no write access (an address outside the owned set of the
\* caller of the current frame).
C36_NoDebitWithoutWriteAccess ==
  [][last'.op = "transfer_coins_for"
       => \A a \in DOMAIN ledger :
            ~has_write_access(Ctx, a) => BalanceOf(ledger', a) >= BalanceOf(ledger, a)]_vars

\* C37: no interface call changes a frame below the top. A successful
\* init_call appends one frame, a successful finish_call removes the top frame
\* and changes no balance, a successful create_module appends the new address
\* to the owned addresses of the top frame, every other call and every failed
\* call leaves the stack as it is; so the finish_call that matches an init_call
\* brings back exactly the stack saved before that init_call.
C37_LowerFramesUntouched ==
  [][/\ Len(stack') >= Len(stack) - 1
     /\ \A i \in 1..(Len(stack) - 1) : stack'[i] = stack[i]
     /\ ~last'.ok => stack' = stack
     /\ (last'.op = "init_call" /\ last'.ok)
          => (Len(stack') = Len(stack) + 1 /\ SubSeq(stack', 1, Len(stack)) = stack)
     /\ (last'.op = "finish_call" /\ last'.ok)
          => (stack' = SubSeq(stack, 1, Len(stack) - 1) /\ ledger' = ledger)
     /\ (last'.op = "create_module" /\ last'.ok)
          => /\ Len(stack') = Len(stack)
             /\ \E a \in DOMAIN ledger' \ DOMAIN ledger :
                  stack'[Len(stack)] =
                    [stack[Len(stack)] EXCEPT !.owned_addresses = Append(@, a)]
     /\ last'.op \notin {"init_call", "finish_call", "create_module"} => stack' = stack
     /\ (last'.op = "finish_call" /\ last'.ok /\ open_calls # <<>>)
          => stack' = open_calls[Len(open_calls)]]_vars

\* A called frame created a module, which extended its owned addresses, and
\* was then finished without a refund of the coin it was called with: the
\* stack is the bottom frame again, as it was before the call.
C37_Witness ==
  /\ last.op = "finish_call"
  /\ last.ok
  /\ created_addr_index = 1
  /\ stack = <<BottomFrame>>
  /\ open_calls = <<>>
  /\ BalanceOf(ledger, AddrB) = 2

\* C38: when the two threads of one context call send_message concurrently,
\* the enqueued messages carry distinct, consecutive emission indices (0, 1,
\* ... in queue order), the counter has grown by one per enqueued message, and
\* the index a call has read is still the counter's value when the call
\* enqueues its message: no other call comes between the read, the enqueue
\* and the increment.
C38_SendMessageAtomic ==
  /\ created_message_index = Len(messages)
  /\ \A i \in 1..Len(messages) : messages[i].emission_index = i - 1
  /\ \A t \in SendCallers :
       calls[t].at = "read" => calls[t].args[3] = <<slot, created_message_index>>

\* Both threads have sent: the message of the second thread was enqueued
\* first with index 0, that of the first thread with index 1, and the
\* counter stands at 2.
C38_Witness ==
  /\ last.op = "send_message"
  /\ last.ok
  /\ Len(messages) = 2
  /\ messages[1].data = <<2>> /\ messages[1].emission_index = 0
  /\ messages[2].data = <<1>> /\ messages[2].emission_index = 1
  /\ created_message_index = 2
  /\ \A t \in SendCallers : calls[t] = Returned

\* C39: a successful create_module returns an address that was not in the
\* ledger before the call; created addresses stay in the ledger, so no two
\* successful calls of one context return the same address either.
C39_CreatedAddressIsNew ==
  [][(last'.op = "create_module" /\ last'.ok)
       => \A bytecode \in Bytecodes :
            Address_from_str(create_module(Ctx, bytecode).ret).v \notin DOMAIN ledger]_vars

C40_WorkerSet ==
  /\ \A t \in DOMAIN tasks, u \in DOMAIN tasks :
       (/\ tasks[t].block_id = tasks[u].block_id
        /\ ~JoinHandle_is_finished(tasks[t]) /\ ~JoinHandle_is_finished(tasks[u])) => t = u
  /\ \A b \in DOMAIN workers : tasks[workers[b]].block_id = b
  /\ (retriever_at = "select" /\ IsSome(last_delta))
       => /\ last_delta.v.added \subseteq DOMAIN workers
          /\ (last_delta.v.removed \ last_delta.v.added) \cap DOMAIN workers = {}
====
